---- MODULE Spec2Model ----
(***************************************************************************)
(* The snapshot store of snapshot-comparison (src/snapshot-comparison/     *)
(* src/lib.rs): the on-disk envelope, its writer and reader, and the       *)
(* create / read / check / update / delete / exists / list / clean         *)
(* operations, modelled at the level of the bytes of each <name>.snap.     *)
(*                                                                         *)
(* A byte string is a sequence of integers: an element e >= 0 is the byte  *)
(* e, and an element e < 0 stands for -e consecutive bytes FillByte, so    *)
(* that contents around MAX_CONTENT_SIZE and header lines around           *)
(* MAX_HEADER_LINE_LENGTH are values TLC can hold.  A string (a name, a    *)
(* decoded line) is a sequence of code points with the same convention.    *)
(* Texts are written as their ASCII codes, with the text in a comment.     *)
(***************************************************************************)
EXTENDS Integers, Sequences, FiniteSets, TLC

\* ------------------------------------------------------------------------
\* Program constants
\* ------------------------------------------------------------------------
MAX_HEADER_LINES == 100
MAX_HEADER_LINE_LENGTH == 1024
MAX_CONTENT_SIZE == 104857600

\* ------------------------------------------------------------------------
\* Bytes
\* ------------------------------------------------------------------------
\* 'x': the byte long runs are made of.
FillByte == 120

\* n consecutive bytes FillByte as one element.
Fill(n) == 0 - n

\* The number of bytes an element stands for, and the byte.
RunLen(e) == IF e < 0 THEN 0 - e ELSE 1
RunByte(e) == IF e < 0 THEN FillByte ELSE e

\* content.len(), line.len(), chars().count(): the bytes (chars) from i on.
RECURSIVE LenFrom(_, _)
LenFrom(s, i) == IF i > Len(s) THEN 0 ELSE RunLen(s[i]) + LenFrom(s, i + 1)

BLen(s) == LenFrom(s, 1)

\* The first k bytes of s (Read::take(k) followed by read_to_end).
RECURSIVE TakeBytes(_, _)
TakeBytes(s, k) ==
    IF s = <<>> \/ k <= 0 THEN <<>>
    ELSE IF RunLen(s[1]) <= k THEN <<s[1]>> \o TakeBytes(Tail(s), k - RunLen(s[1]))
    ELSE <<Fill(k)>>

\* s without its first k bytes.
RECURSIVE DropBytes(_, _)
DropBytes(s, k) ==
    IF s = <<>> \/ k <= 0 THEN s
    ELSE IF RunLen(s[1]) <= k THEN DropBytes(Tail(s), k - RunLen(s[1]))
    ELSE <<Fill(RunLen(s[1]) - k)>> \o Tail(s)

\* ------------------------------------------------------------------------
\* UTF-8 (std::str::from_utf8, the bytes of a String)
\* ------------------------------------------------------------------------
IsCont(s, i) == i <= Len(s) /\ s[i] >= 128 /\ s[i] <= 191

\* The width of the UTF-8 sequence that starts at element i, 0 when invalid.
SeqWidth(s, i) ==
    LET b == s[i] IN
    IF b < 128 THEN 1
    ELSE IF b >= 194 /\ b <= 223 THEN (IF IsCont(s, i + 1) THEN 2 ELSE 0)
    ELSE IF b >= 224 /\ b <= 239 THEN
        (IF /\ IsCont(s, i + 1) /\ IsCont(s, i + 2)
            /\ (b = 224 => s[i + 1] >= 160)
            /\ (b = 237 => s[i + 1] <= 159)
         THEN 3 ELSE 0)
    ELSE IF b >= 240 /\ b <= 244 THEN
        (IF /\ IsCont(s, i + 1) /\ IsCont(s, i + 2) /\ IsCont(s, i + 3)
            /\ (b = 240 => s[i + 1] >= 144)
            /\ (b = 244 => s[i + 1] <= 143)
         THEN 4 ELSE 0)
    ELSE 0

CodePoint(s, i, w) ==
    IF w = 1 THEN s[i]
    ELSE IF w = 2 THEN (s[i] - 192) * 64 + (s[i + 1] - 128)
    ELSE IF w = 3 THEN (s[i] - 224) * 4096 + (s[i + 1] - 128) * 64 + (s[i + 2] - 128)
    ELSE (s[i] - 240) * 262144 + (s[i + 1] - 128) * 4096
             + (s[i + 2] - 128) * 64 + (s[i + 3] - 128)

\* The char c in front of the decoded rest.
Decoded(c, rest) ==
    [ok |-> rest.ok, chars |-> IF rest.ok THEN <<c>> \o rest.chars ELSE <<>>]

\* from_utf8 on the elements from i on: [ok, chars], chars the decoded string.
RECURSIVE DecodeFrom(_, _)
DecodeNext(s, i, w) ==
    IF w = 0 THEN [ok |-> FALSE, chars |-> <<>>]
    ELSE Decoded(CodePoint(s, i, w), DecodeFrom(s, i + w))

DecodeFrom(s, i) ==
    IF i > Len(s) THEN [ok |-> TRUE, chars |-> <<>>]
    ELSE DecodeNext(s, i, SeqWidth(s, i))

\* ASCII bytes decode to themselves.
from_utf8(bytes) ==
    IF \A i \in 1..Len(bytes) : bytes[i] < 128
    THEN [ok |-> TRUE, chars |-> bytes]
    ELSE DecodeFrom(bytes, 1)

\* The UTF-8 bytes of one code point.
EncodeChar(c) ==
    IF c < 128 THEN <<c>>
    ELSE IF c < 2048 THEN <<192 + (c \div 64), 128 + (c % 64)>>
    ELSE IF c < 65536 THEN <<224 + (c \div 4096), 128 + ((c \div 64) % 64), 128 + (c % 64)>>
    ELSE <<240 + (c \div 262144), 128 + ((c \div 4096) % 64),
           128 + ((c \div 64) % 64), 128 + (c % 64)>>

\* The bytes of a string (what write! emits for it).
RECURSIVE as_bytes(_)
as_bytes(str) ==
    IF str = <<>> THEN <<>> ELSE EncodeChar(str[1]) \o as_bytes(Tail(str))

\* ------------------------------------------------------------------------
\* char predicates and str helpers
\* ------------------------------------------------------------------------
\* char::is_control: general category Cc.
is_control(c) == (c >= 0 /\ c <= 31) \/ (c >= 127 /\ c <= 159)

\* char::is_whitespace: the White_Space property (what str::trim strips).
is_whitespace(c) ==
    \/ (c >= 9 /\ c <= 13) \/ c = 32 \/ c = 133 \/ c = 160 \/ c = 5760
    \/ (c >= 8192 /\ c <= 8202) \/ c = 8232 \/ c = 8233 \/ c = 8239
    \/ c = 8287 \/ c = 12288

is_ascii_alphanumeric(c) ==
    (c >= 48 /\ c <= 57) \/ (c >= 65 /\ c <= 90) \/ (c >= 97 /\ c <= 122)

\* The first index from i up (the last from j down) that is no whitespace.
RECURSIVE TrimLeft(_, _)
TrimLeft(str, i) ==
    IF i <= Len(str) /\ is_whitespace(str[i]) THEN TrimLeft(str, i + 1) ELSE i

RECURSIVE TrimRight(_, _, _)
TrimRight(str, i, j) ==
    IF j >= i /\ is_whitespace(str[j]) THEN TrimRight(str, i, j - 1) ELSE j

\* str::trim
trim(str) ==
    LET i == TrimLeft(str, 1) IN SubSeq(str, i, TrimRight(str, i, Len(str)))

\* str::strip_prefix("# "): [ok, rest].
strip_prefix_hash(str) ==
    IF Len(str) >= 2 /\ str[1] = 35 /\ str[2] = 32
    THEN [ok |-> TRUE, rest |-> SubSeq(str, 3, Len(str))]
    ELSE [ok |-> FALSE, rest |-> <<>>]

\* The index of the first ':' followed by ' ', 0 if there is none.
RECURSIVE FindColonSpace(_, _)
FindColonSpace(str, i) ==
    IF i + 1 > Len(str) THEN 0
    ELSE IF str[i] = 58 /\ str[i + 1] = 32 THEN i
    ELSE FindColonSpace(str, i + 1)

\* str::split_once(": "): [ok, key, value].
split_once(str) ==
    LET i == FindColonSpace(str, 1) IN
    IF i = 0 THEN [ok |-> FALSE, key |-> <<>>, value |-> <<>>]
    ELSE [ok |-> TRUE, key |-> SubSeq(str, 1, i - 1),
          value |-> SubSeq(str, i + 2, Len(str))]

\* ------------------------------------------------------------------------
\* compute_hash: 64-bit FNV-1a, a u64 held as 8 bytes, least significant first
\* ------------------------------------------------------------------------
\* 0xcbf29ce484222325
FNV_OFFSET == <<37, 35, 34, 132, 228, 156, 242, 203>>
\* 0x100000001b3
FNV_PRIME == <<179, 1, 0, 0, 0, 1, 0, 0>>

\* The hash after MAX_CONTENT_SIZE bytes FillByte, from FNV_OFFSET
\* (0xdfe2789f91222325): the loop of compute_hash run on that input, tabulated.
FnvOfFill == <<37, 35, 34, 145, 159, 120, 226, 223>>

\* x ^ y on bytes.
RECURSIVE Xor8(_, _)
Xor8(x, y) ==
    IF x = 0 THEN y ELSE IF y = 0 THEN x
    ELSE ((x + y) % 2) + 2 * Xor8(x \div 2, y \div 2)

\* Column k of the schoolbook product of a and b.
RECURSIVE MulColumn(_, _, _, _)
MulColumn(a, b, k, i) ==
    IF i > k THEN 0 ELSE a[i + 1] * b[k - i + 1] + MulColumn(a, b, k, i + 1)

RECURSIVE MulFrom(_, _, _, _)
MulFrom(a, b, k, carry) ==
    IF k = 8 THEN <<>>
    ELSE LET t == MulColumn(a, b, k, 0) + carry IN
         <<t % 256>> \o MulFrom(a, b, k + 1, t \div 256)

\* u64::wrapping_mul: the product modulo 2^64.
wrapping_mul(a, b) == MulFrom(a, b, 0, 0)

\* One turn of the loop: hash ^= byte; hash = hash.wrapping_mul(FNV_PRIME).
FnvStep(hash, byte) ==
    wrapping_mul(<<Xor8(hash[1], byte)>> \o Tail(hash), FNV_PRIME)

\* n turns of the loop on the same byte.
RECURSIVE FnvRun(_, _, _)
FnvRun(hash, byte, n) ==
    IF n = 0 THEN hash
    ELSE IF hash = FNV_OFFSET /\ byte = FillByte /\ n >= MAX_CONTENT_SIZE
         THEN FnvRun(FnvOfFill, byte, n - MAX_CONTENT_SIZE)
    ELSE FnvRun(FnvStep(hash, byte), byte, n - 1)

RECURSIVE FnvFrom(_, _, _)
FnvFrom(hash, s, i) ==
    IF i > Len(s) THEN hash
    ELSE FnvFrom(FnvRun(hash, RunByte(s[i]), RunLen(s[i])), s, i + 1)

HexDigit(d) == IF d < 10 THEN 48 + d ELSE 87 + d

\* format!("{:016x}", hash): 16 lowercase hex digits, most significant first.
Hex16(hash) ==
    [k \in 1..16 |->
        LET byte == hash[8 - ((k - 1) \div 2)] IN
        HexDigit(IF k % 2 = 1 THEN byte \div 16 ELSE byte % 16)]

compute_hash(content) == Hex16(FnvFrom(FNV_OFFSET, content, 1))

\* ------------------------------------------------------------------------
\* Decimal text of u64 / usize (Display, str::parse)
\* ------------------------------------------------------------------------
\* format!("{}", v)
RECURSIVE to_string(_)
to_string(v) ==
    IF v < 10 THEN <<48 + v>> ELSE to_string(v \div 10) \o <<48 + (v % 10)>>

RECURSIVE DecValue(_, _, _)
DecValue(str, i, acc) ==
    IF i > Len(str) THEN acc ELSE DecValue(str, i + 1, acc * 10 + (str[i] - 48))

\* s.parse::<u64>().ok(), -1 for None: an optional '+', then one or more digits.
\* (Values of more than nine digits lie outside the model's integers; none of
\* the texts the model parses is that long.)
parse(str) ==
    LET digits == IF str # <<>> /\ str[1] = 43 THEN Tail(str) ELSE str IN
    IF \/ digits = <<>> \/ Len(digits) > 9
       \/ \E i \in 1..Len(digits) : digits[i] < 48 \/ digits[i] > 57
    THEN -1
    ELSE DecValue(digits, 1, 0)

\* ------------------------------------------------------------------------
\* detect_file_type(content, None)
\* ------------------------------------------------------------------------
\* The chars from i on that are not control, or are '\n', '\r' or '\t'.
RECURSIVE CountFrom(_, _)
CountFrom(chars, i) ==
    IF i > Len(chars) THEN 0
    ELSE (IF ~is_control(chars[i]) \/ chars[i] \in {10, 13, 9}
          THEN RunLen(chars[i]) ELSE 0)
         + CountFrom(chars, i + 1)

\* printable_count * 100 / total_chars >= 95 in usize arithmetic; as the
\* division truncates, that is printable_count * 100 >= 95 * total_chars,
\* stated with both sides divided by 5 to stay within the model's integers.
MostlyPrintable(printable_count, total_chars) ==
    total_chars > 0 /\ printable_count * 20 >= 19 * total_chars

\* The arm that follows the extension match, on the result of from_utf8.
DetectOn(text) ==
    IF text.ok /\ MostlyPrintable(CountFrom(text.chars, 1), BLen(text.chars))
    THEN "text" ELSE "binary"

detect_file_type(content) == DetectOn(from_utf8(content))

\* ------------------------------------------------------------------------
\* Snapshot, SnapshotMetadata, SnapshotError
\* ------------------------------------------------------------------------
\* FileType, by the word write_snapshot spells it with.
FileTypes == {"text", "json", "binary"}

\* A Snapshot with its metadata: name and content_hash are strings, content
\* a byte string.
Snapshot(name, created_at, updated_at, content_hash, size, file_type, content) ==
    [name |-> name, created_at |-> created_at, updated_at |-> updated_at,
     content_hash |-> content_hash, size |-> size, file_type |-> file_type,
     content |-> content]

\* The placeholder carried by a result that holds no snapshot.
NoSnapshot == Snapshot(<<>>, 0, 0, <<>>, 0, "text", <<>>)

\* Result<Snapshot, SnapshotError>: kind is "Ok" or the error's variant, why
\* tells the CorruptedSnapshot messages apart.
OkSnap(snapshot) == [kind |-> "Ok", why |-> "", snap |-> snapshot]
Err(kind, why) == [kind |-> kind, why |-> why, snap |-> NoSnapshot]

\* ------------------------------------------------------------------------
\* validate_name / snapshot_path
\* ------------------------------------------------------------------------
\* name.contains("..")
ContainsDotDot(name) ==
    \E i \in 1..(Len(name) - 1) : name[i] = 46 /\ name[i + 1] = 46

\* name.contains(c)
ContainsChar(name, c) == \E i \in 1..Len(name) : name[i] = c

\* validate_name without the test for "..".
validate_name_without_dotdot(name) ==
    IF name = <<>> THEN FALSE
    ELSE IF ContainsChar(name, 47) \/ ContainsChar(name, 92) THEN FALSE
    ELSE IF ContainsChar(name, 0) THEN FALSE
    ELSE \A i \in 1..Len(name) :
            is_ascii_alphanumeric(name[i]) \/ name[i] \in {45, 95, 46}

\* Ok(()) is TRUE, Err(InvalidName) is FALSE.
validate_name(name) ==
    IF name = <<>> THEN FALSE
    ELSE IF ContainsDotDot(name) \/ ContainsChar(name, 47) \/ ContainsChar(name, 92)
         THEN FALSE
    ELSE IF ContainsChar(name, 0) THEN FALSE
    ELSE \A i \in 1..Len(name) :
            is_ascii_alphanumeric(name[i]) \/ name[i] \in {45, 95, 46}

\* ------------------------------------------------------------------------
\* write_snapshot: the envelope
\* ------------------------------------------------------------------------
\* "text", "json", "binary"
TypeWord(file_type) ==
    IF file_type = "text" THEN <<116, 101, 120, 116>>
    ELSE IF file_type = "json" THEN <<106, 115, 111, 110>>
    ELSE <<98, 105, 110, 97, 114, 121>>

\* "---"
Separator == <<45, 45, 45>>

\* The byte strings write_snapshot writes, in order: one per writeln!
\* ("# Snapshot: ", "# Created: ", "# Updated: ", "# Hash: ", "# Size: ",
\* "# Type: ", "---", each ended by '\n'), then the content.
WriteCalls(snapshot) ==
    << <<35, 32, 83, 110, 97, 112, 115, 104, 111, 116, 58, 32>> \o as_bytes(snapshot.name) \o <<10>>,
       <<35, 32, 67, 114, 101, 97, 116, 101, 100, 58, 32>> \o to_string(snapshot.created_at) \o <<10>>,
       <<35, 32, 85, 112, 100, 97, 116, 101, 100, 58, 32>> \o to_string(snapshot.updated_at) \o <<10>>,
       <<35, 32, 72, 97, 115, 104, 58, 32>> \o as_bytes(snapshot.content_hash) \o <<10>>,
       <<35, 32, 83, 105, 122, 101, 58, 32>> \o to_string(snapshot.size) \o <<10>>,
       <<35, 32, 84, 121, 112, 101, 58, 32>> \o TypeWord(snapshot.file_type) \o <<10>>,
       Separator \o <<10>>,
       snapshot.content >>

RECURSIVE Concat(_, _)
Concat(seqs, i) == IF i > Len(seqs) THEN <<>> ELSE seqs[i] \o Concat(seqs, i + 1)

\* The file write_snapshot leaves when nothing else writes it: File::create
\* empties the file and the writes follow one another.
Envelope(snapshot) == Concat(WriteCalls(snapshot), 1)

\* ------------------------------------------------------------------------
\* read: the envelope parser
\* ------------------------------------------------------------------------
\* The index of the element that ends the line starting at element i: the
\* first '\n', or the last element of the file.
RECURSIVE LineStop(_, _)
LineStop(bytes, i) ==
    IF i >= Len(bytes) \/ bytes[i] = 10 THEN i ELSE LineStop(bytes, i + 1)

\* What read_line returns when called at element p.
LineAt(bytes, p) == SubSeq(bytes, p, LineStop(bytes, p))

\* The elements read_line is called at if the loop runs to the end of the
\* file: the first, and each one that follows a '\n'.
LineStarts(bytes) == {p \in 1..Len(bytes) : p = 1 \/ bytes[p - 1] = 10}

\* One turn of the loop (lines 446-485) on a line of line_len bytes that
\* decodes to line, header_line_count being the count after "+= 1": the
\* return or break the turn ends the loop with, or "next".
Turn(line_len, line, header_line_count) ==
    IF ~line.ok THEN "InvalidData"
    ELSE IF line_len > MAX_HEADER_LINE_LENGTH THEN "Header line too long"
    ELSE IF header_line_count > MAX_HEADER_LINES THEN "Too many header lines"
    ELSE IF trim(line.chars) = Separator THEN "separator"
    ELSE "next"

TurnOn(raw, header_line_count) == Turn(BLen(raw), from_utf8(raw), header_line_count)

\* The turn on the line at p: header_line_count is the number of lines up to it.
TurnAt(bytes, starts, p) ==
    TurnOn(LineAt(bytes, p), Cardinality({q \in starts : q <= p}))

Least(set) == CHOOSE p \in set : \A q \in set : p <= q

\* The line at which the loop ends by a return or the separator's break, 0 if
\* read_line returns 0 first.
LastLine(stops) == IF stops = {} THEN 0 ELSE Least(stops)

\* The arm of line 481: the key and value that line inserts, if any.
KeyValue(stripped) ==
    IF stripped.ok THEN split_once(trim(stripped.rest))
    ELSE [ok |-> FALSE, key |-> <<>>, value |-> <<>>]

EntryAt(bytes, q) ==
    [at |-> q, kv |-> KeyValue(strip_prefix_hash(from_utf8(LineAt(bytes, q)).chars))]

\* The inserts made by the lines that start at the elements in before.
Header(bytes, before) == {e \in {EntryAt(bytes, q) : q \in before} : e.kv.ok}

\* HashMap::insert keeps the last value given to a key.
LastOf(entries) ==
    IF entries = {} THEN [some |-> FALSE, value |-> <<>>]
    ELSE [some |-> TRUE,
          value |-> (CHOOSE e \in entries : \A o \in entries : o.at <= e.at).kv.value]

\* header.get(key)
Get(header, key) == LastOf({e \in header : e.kv.key = key})

\* Option::unwrap_or on a parsed number, -1 being None.
UnwrapOr(parsed, default) == IF parsed >= 0 THEN parsed ELSE default

\* .and_then(|s| s.parse().ok()).unwrap_or(default)
ParsedOr(entry, default) ==
    IF entry.some THEN UnwrapOr(parse(entry.value), default) ELSE default

\* header.get(key).cloned().unwrap_or_else(|| default)
ClonedOr(entry, default) == IF entry.some THEN entry.value ELSE default

\* The match on the "Type" value, or detect_file_type(&content, None).
TypeOr(entry, content) ==
    IF entry.some
    THEN (IF entry.value = TypeWord("json") THEN "json"
          ELSE IF entry.value = TypeWord("binary") THEN "binary" ELSE "text")
    ELSE detect_file_type(content)

\* "Parse metadata": the snapshot built from the header map (keys "Snapshot",
\* "Created", "Updated", "Hash", "Size", "Type") and the content.
ParseMetadata(name, header, content) ==
    Snapshot(
        ClonedOr(Get(header, <<83, 110, 97, 112, 115, 104, 111, 116>>), name),
        ParsedOr(Get(header, <<67, 114, 101, 97, 116, 101, 100>>), 0),
        ParsedOr(Get(header, <<85, 112, 100, 97, 116, 101, 100>>), 0),
        ClonedOr(Get(header, <<72, 97, 115, 104>>), compute_hash(content)),
        ParsedOr(Get(header, <<83, 105, 122, 101>>), BLen(content)),
        TypeOr(Get(header, <<84, 121, 112, 101>>), content),
        content)

\* The separator arm: the content is what take(MAX_CONTENT_SIZE + 1) lets
\* read_to_end see.
ReadContent(name, header, content) ==
    IF BLen(content) > MAX_CONTENT_SIZE
    THEN Err("CorruptedSnapshot", "Content too large")
    ELSE OkSnap(ParseMetadata(name, header, content))

\* The end of the loop at the line that starts at element p and ends at
\* element j, by what its turn came to; before holds the starts of the lines
\* read earlier.
ReadTurn(name, bytes, before, j, turn) ==
    IF turn = "InvalidData" THEN Err("IoError", "stream did not contain valid UTF-8")
    ELSE IF turn # "separator" THEN Err("CorruptedSnapshot", turn)
    ELSE ReadContent(name, Header(bytes, before),
                     TakeBytes(SubSeq(bytes, j + 1, Len(bytes)), MAX_CONTENT_SIZE + 1))

ReadStop(name, bytes, starts, p) ==
    IF p = 0 THEN Err("CorruptedSnapshot", "Missing --- separator")
    ELSE ReadTurn(name, bytes, {q \in starts : q < p}, LineStop(bytes, p),
                  TurnAt(bytes, starts, p))

\* The header loop: it goes from line to line until a turn returns or breaks.
ReadLoop(name, bytes, starts) ==
    ReadStop(name, bytes, starts,
             LastLine({p \in starts : TurnAt(bytes, starts, p) # "next"}))

\* read on the bytes of an existing <name>.snap.
ReadFile(name, bytes) == ReadLoop(name, bytes, LineStarts(bytes))

\* The header map as the loop has it when it reaches the separator (all the
\* lines' inserts, if it never does), before any content is read.
HeaderBefore(bytes, starts, p) ==
    Header(bytes, IF p = 0 THEN starts ELSE {q \in starts : q < p})

StoredHeader(bytes) ==
    HeaderBefore(bytes, LineStarts(bytes),
                 LastLine({p \in LineStarts(bytes) :
                              TurnAt(bytes, LineStarts(bytes), p) # "next"}))

\* ------------------------------------------------------------------------
\* Bounds and inputs
\* ------------------------------------------------------------------------
\* The clock (seconds since the epoch, as SystemTime::now() reports it) runs
\* from 0 to MaxClock.
MaxClock == 2

\* "a", "Z-_.9"
NameA == <<97>>
NameB == <<90, 45, 95, 46, 57>>
ValidNames == {NameA, NameB}

\* "", "..", "a/", "\", "a" NUL, "a b", and U+0430 (Cyrillic a)
InvalidNames ==
    {<<>>, <<46, 46>>, <<97, 47>>, <<92>>, <<97, 0>>, <<97, 32, 98>>, <<1072>>}

Names == ValidNames \cup InvalidNames

\* Contents: empty, the text "---\n", the byte 0xFF (no UTF-8), and
\* MAX_CONTENT_SIZE + 1 bytes 'x'.
Empty == <<>>
SepText == <<45, 45, 45, 10>>
NotUtf8 == <<255>>
Oversize == <<Fill(MAX_CONTENT_SIZE + 1)>>
Contents == {Empty, SepText, NotUtf8, Oversize}

\* SnapshotConfig: file_type is "none" for None (context_lines and color only
\* reach the differs' output).
Configs == [file_type : {"none"} \cup FileTypes, update_mode : BOOLEAN]
DefaultConfig == [file_type |-> "none", update_mode |-> FALSE]

\* ------------------------------------------------------------------------
\* State
\* ------------------------------------------------------------------------
VARIABLES
    files,     \* base_dir: for each name, whether <name>.snap exists, and its bytes
    clock,     \* what SystemTime::now() returns
    last,      \* the last call: operation, arguments, returned value
    writers,   \* the update calls in progress, each at its position in write_snapshot
    hostile,   \* the shape of a .snap file put into base_dir from outside
    diff       \* a call of a differ (diff_text, diff_binary, diff_json): inputs, result

vars == <<files, clock, last, writers, hostile, diff>>

\* No differ has been called.
NoDiff == [op |-> "none"]

NoFile == [exists |-> FALSE, data |-> <<>>]
File(bytes) == [exists |-> TRUE, data |-> bytes]

\* A call and its outcome.  kind is "Ok", a CompareResult variant ("Match",
\* "Mismatch", "Updated") or a SnapshotError variant; snap is the returned
\* Snapshot (for Mismatch the stored snapshot, for Updated old_snapshot);
\* flag is the bool of exists; listed the metadata of list; deleted the
\* names of clean; at is the clock when the call returned.
Call(op, name, content, config, keep, dry_run, at, r) ==
    [op |-> op, name |-> name, content |-> content, config |-> config,
     keep |-> keep, dry_run |-> dry_run, at |-> at,
     kind |-> r.kind, why |-> r.why, snap |-> r.snap,
     flag |-> r.flag, listed |-> r.listed, deleted |-> r.deleted]

Res(kind, why, snap, flag, listed, deleted) ==
    [kind |-> kind, why |-> why, snap |-> snap, flag |-> flag,
     listed |-> listed, deleted |-> deleted]

\* Result<Snapshot, SnapshotError> as a returned value
OfResult(r) == Res(r.kind, r.why, r.snap, FALSE, <<>>, <<>>)

\* ------------------------------------------------------------------------
\* The operations, as functions of the directory
\* ------------------------------------------------------------------------
read(dir, name) ==
    IF ~validate_name(name) THEN Err("InvalidName", "")
    ELSE IF ~dir[name].exists THEN Err("NotFound", "")
    ELSE ReadFile(name, dir[name].data)

\* config.file_type.unwrap_or_else(|| detect_file_type(content, None))
TypeFor(config, content) ==
    IF config.file_type = "none" THEN detect_file_type(content) ELSE config.file_type

write_snapshot(dir, name, snapshot) ==
    [dir EXCEPT ![name] = File(Envelope(snapshot))]

\* self.write_snapshot(&path, &snapshot)?; Ok(snapshot)
Written(dir, name, snapshot) ==
    [dir |-> write_snapshot(dir, name, snapshot), res |-> OkSnap(snapshot)]

create(dir, name, content, config, now) ==
    IF ~validate_name(name) THEN [dir |-> dir, res |-> Err("InvalidName", "")]
    ELSE Written(dir, name,
                 Snapshot(name, now, now, compute_hash(content),
                          BLen(content), TypeFor(config, content), content))

\* .map(|s| s.metadata.created_at).unwrap_or_else(|_| now)
CreatedOr(old, now) == IF old.kind = "Ok" THEN old.snap.created_at ELSE now

\* The Snapshot update builds: now is the clock when created_at is settled,
\* later the clock at "let now" (line 667).
\* The Snapshot of an update that keeps the hash it read instead of hashing
\* the new content.
UpdatedSnapshotStaleHash(dir, name, content, config, now, later) ==
    Snapshot(name,
             IF dir[name].exists THEN CreatedOr(read(dir, name), now) ELSE now,
             later,
             IF dir[name].exists /\ read(dir, name).kind = "Ok"
             THEN read(dir, name).snap.content_hash ELSE compute_hash(content),
             BLen(content), TypeFor(config, content), content)

UpdatedSnapshot(dir, name, content, config, now, later) ==
    Snapshot(name,
             IF dir[name].exists THEN CreatedOr(read(dir, name), now) ELSE now,
             later, compute_hash(content),
             BLen(content), TypeFor(config, content), content)

update(dir, name, content, config, now, later) ==
    IF ~validate_name(name) THEN [dir |-> dir, res |-> Err("InvalidName", "")]
    ELSE Written(dir, name, UpdatedSnapshot(dir, name, content, config, now, later))

\* Whether building the diff fails: Text and Json decode both sides first.
\* (diff_text, diff_binary and the diff_json-or-diff_text fallback return a
\* diff for every pair of inputs.)
DiffFails(file_type, expected, actual) ==
    /\ file_type \in {"text", "json"}
    /\ ~from_utf8(expected).ok \/ ~from_utf8(actual).ok

\* Ok(CompareResult::Updated { old_snapshot, new_content }) once update
\* returned u.
UpdatedResult(u, old_snapshot) ==
    IF u.res.kind # "Ok" THEN u
    ELSE [dir |-> u.dir,
          res |-> [kind |-> "Updated", why |-> "", snap |-> old_snapshot]]

\* check from "let diff" on, for a snapshot whose hash differs.
CheckDiff(dir, name, actual, config, now, later, snapshot) ==
    IF DiffFails(IF config.file_type = "none" THEN snapshot.file_type
                 ELSE config.file_type,
                 snapshot.content, actual)
    THEN [dir |-> dir, res |-> Err("InvalidUtf8", "")]
    ELSE IF config.update_mode
         THEN UpdatedResult(update(dir, name, actual, config, now, later), snapshot)
    ELSE [dir |-> dir, res |-> [kind |-> "Mismatch", why |-> "", snap |-> snapshot]]

\* check after "let snapshot = self.read(name)?", r being what read returned.
CheckRead(dir, name, actual, config, now, later, r) ==
    IF r.kind # "Ok" THEN [dir |-> dir, res |-> r]
    ELSE IF r.snap.content_hash = compute_hash(actual)
         THEN [dir |-> dir, res |-> [kind |-> "Match", why |-> "", snap |-> NoSnapshot]]
    ELSE CheckDiff(dir, name, actual, config, now, later, r.snap)

check(dir, name, actual, config, now, later) ==
    CheckRead(dir, name, actual, config, now, later, read(dir, name))

delete(dir, name) ==
    IF ~validate_name(name) THEN [dir |-> dir, res |-> Err("InvalidName", "")]
    ELSE IF ~dir[name].exists THEN [dir |-> dir, res |-> Err("NotFound", "")]
    ELSE [dir |-> [dir EXCEPT ![name] = NoFile], res |-> OkSnap(NoSnapshot)]

exists(dir, name) ==
    IF ~validate_name(name) THEN Res("InvalidName", "", NoSnapshot, FALSE, <<>>, <<>>)
    ELSE Res("Ok", "", NoSnapshot, dir[name].exists, <<>>, <<>>)

\* snapshot.metadata
Metadata(snapshot) ==
    [name |-> snapshot.name, created_at |-> snapshot.created_at,
     updated_at |-> snapshot.updated_at, content_hash |-> snapshot.content_hash,
     size |-> snapshot.size, file_type |-> snapshot.file_type]

\* a.cmp(&b) = Less on strings: the order of their bytes, which is that of
\* their code points.
RECURSIVE StrLess(_, _)
StrLess(a, b) ==
    IF b = <<>> THEN FALSE
    ELSE IF a = <<>> THEN TRUE
    ELSE IF a[1] # b[1] THEN a[1] < b[1]
    ELSE StrLess(Tail(a), Tail(b))

\* snapshots.sort_by(|a, b| a.name.cmp(&b.name))
RECURSIVE SortByName(_)
SortByName(set) ==
    IF set = {} THEN <<>>
    ELSE LET first == CHOOSE m \in set : \A o \in set : ~StrLess(o.name, m.name)
         IN <<first>> \o SortByName(set \ {first})

\* The entries of the loop of list: every <name>.snap with what read returns
\* for its stem.
Entries(dir) == {[stem |-> n, read |-> read(dir, n)] : n \in {m \in DOMAIN dir : dir[m].exists}}

Pushed(entries) == {Metadata(e.read.snap) : e \in {f \in entries : f.read.kind = "Ok"}}

\* The metadata of every <name>.snap that read accepts, sorted by name.
list(dir) == SortByName(Pushed(Entries(dir)))

\* The loop of clean from all_snapshots[i] on; CleanDeleted goes on after
\* self.delete(&snapshot.name) returned d.
RECURSIVE CleanFrom(_, _, _, _, _, _)
CleanDeleted(d, all_snapshots, i, valid_set, dry_run, deleted) ==
    IF d.res.kind # "Ok" THEN [dir |-> d.dir, res |-> OfResult(d.res)]
    ELSE CleanFrom(d.dir, all_snapshots, i + 1, valid_set, dry_run,
                   Append(deleted, all_snapshots[i].name))

CleanFrom(dir, all_snapshots, i, valid_set, dry_run, deleted) ==
    IF i > Len(all_snapshots)
    THEN [dir |-> dir, res |-> Res("Ok", "", NoSnapshot, FALSE, <<>>, deleted)]
    ELSE IF all_snapshots[i].name \in valid_set
         THEN CleanFrom(dir, all_snapshots, i + 1, valid_set, dry_run, deleted)
    ELSE IF dry_run
         THEN CleanFrom(dir, all_snapshots, i + 1, valid_set, dry_run,
                        Append(deleted, all_snapshots[i].name))
    ELSE CleanDeleted(delete(dir, all_snapshots[i].name),
                      all_snapshots, i, valid_set, dry_run, deleted)

clean(dir, valid_names, dry_run) ==
    CleanFrom(dir, list(dir), 1, valid_names, dry_run, <<>>)

\* ------------------------------------------------------------------------
\* The store, one call at a time
\* ------------------------------------------------------------------------
NoCall ==
    Call("none", <<>>, <<>>, DefaultConfig, {}, FALSE, 0,
         Res("Ok", "", NoSnapshot, FALSE, <<>>, <<>>))

Init ==
    /\ files = [n \in Names |-> NoFile]
    /\ clock = 0
    /\ last = NoCall
    /\ writers = <<>>
    /\ hostile = <<>>
    /\ diff = NoDiff

\* A call that returned r = [dir, res]: the directory it leaves and the
\* record of the call.
Returned(op, name, content, config, at, r) ==
    /\ files' = r.dir
    /\ last' = Call(op, name, content, config, {}, FALSE, at, OfResult(r.res))

Create(name, content, config) ==
    /\ Returned("create", name, content, config, clock,
                create(files, name, content, config, clock))
    /\ UNCHANGED <<clock, writers, hostile, diff>>

\* The clock reads later when update reaches line 667.
Update(name, content, config, later) ==
    /\ Returned("update", name, content, config, later,
                update(files, name, content, config, clock, later))
    /\ clock' = later
    /\ UNCHANGED <<writers, hostile, diff>>

Read(name) ==
    /\ last' = Call("read", name, <<>>, DefaultConfig, {}, FALSE, clock,
                    OfResult(read(files, name)))
    /\ UNCHANGED <<files, clock, writers, hostile, diff>>

Check(name, actual, config, later) ==
    /\ Returned("check", name, actual, config, later,
                check(files, name, actual, config, clock, later))
    /\ clock' = later
    /\ UNCHANGED <<writers, hostile, diff>>

Delete(name) ==
    /\ Returned("delete", name, <<>>, DefaultConfig, clock, delete(files, name))
    /\ UNCHANGED <<clock, writers, hostile, diff>>

Exists(name) ==
    /\ last' = Call("exists", name, <<>>, DefaultConfig, {}, FALSE, clock,
                    exists(files, name))
    /\ UNCHANGED <<files, clock, writers, hostile, diff>>

List ==
    /\ last' = Call("list", <<>>, <<>>, DefaultConfig, {}, FALSE, clock,
                    Res("Ok", "", NoSnapshot, FALSE, list(files), <<>>))
    /\ UNCHANGED <<files, clock, writers, hostile, diff>>

Cleaned(valid_names, dry_run, r) ==
    /\ files' = r.dir
    /\ last' = Call("clean", <<>>, <<>>, DefaultConfig, valid_names, dry_run, clock, r.res)

Clean(valid_names, dry_run) ==
    /\ Cleaned(valid_names, dry_run, clean(files, valid_names, dry_run))
    /\ UNCHANGED <<clock, writers, hostile, diff>>

\* A second passes.
Tick ==
    /\ clock < MaxClock
    /\ clock' = clock + 1
    /\ UNCHANGED <<files, last, writers, hostile, diff>>

\* The calls the store is driven with: every content on NameA, stored with a
\* detected or a forced type and checked with and without update_mode, and
\* one content on NameB.
Input(name, content, config) == [name |-> name, content |-> content, config |-> config]

StoreChecks ==
    {Input(NameA, c, g) : c \in Contents, g \in Configs}
        \cup {Input(NameB, SepText, DefaultConfig)}

StoreWrites == {i \in StoreChecks : ~i.config.update_mode}

Next ==
    \/ \E i \in StoreWrites : Create(i.name, i.content, i.config)
    \/ \E i \in StoreWrites : Update(i.name, i.content, i.config, clock)
    \/ \E n \in ValidNames : Read(n)
    \/ \E i \in StoreChecks : Check(i.name, i.content, i.config, clock)
    \/ \E n \in ValidNames : Delete(n)
    \/ \E n \in ValidNames : Exists(n)
    \/ List
    \/ \E valid_names \in SUBSET ValidNames, dry_run \in BOOLEAN :
          Clean(valid_names, dry_run)

Spec == Init /\ [][Next]_vars

\* The store called with every name, valid or not.
NextNames ==
    \/ \E n \in Names : Create(n, SepText, DefaultConfig)
    \/ \E n \in Names : Update(n, SepText, DefaultConfig, clock)
    \/ \E n \in Names : Read(n)
    \/ \E n \in Names, c \in {Empty, SepText} : Check(n, c, DefaultConfig, clock)
    \/ \E n \in Names : Delete(n)
    \/ \E n \in Names : Exists(n)

SpecNames == Init /\ [][NextNames]_vars

\* The store on one name while the clock runs.
ClockContents == {Empty, SepText, Oversize}
ClockConfigs == [file_type : {"none", "json"}, update_mode : BOOLEAN]
Later == {t \in {clock, clock + 1} : t <= MaxClock}

NextClock ==
    \/ \E c \in ClockContents, t \in {"none", "json"} :
          Create(NameA, c, [file_type |-> t, update_mode |-> FALSE])
    \/ \E c \in ClockContents, t \in {"none", "json"}, later \in Later :
          Update(NameA, c, [file_type |-> t, update_mode |-> FALSE], later)
    \/ Read(NameA)
    \/ \E c \in ClockContents, g \in ClockConfigs, later \in Later :
          Check(NameA, c, g, later)
    \/ Delete(NameA)
    \/ Tick

SpecClock == Init /\ [][NextClock]_vars

\* ------------------------------------------------------------------------
\* Concurrent update calls on one name
\* ------------------------------------------------------------------------
\* The number of update calls that run at once.
NumWriters == 2
Writers == 1..NumWriters

\* "ab", "c": what the calls write; "old": what the name held before.
RaceContents == {<<97, 98>>, <<99>>}
RaceOld == <<111, 108, 100>>

\* write(2) of bytes at a file offset: the bytes replace what was there, the
\* file grows as needed, a gap reads as zeros.
WriteAt(data, offset, bytes) ==
    [k \in 1..(IF Len(data) > offset + Len(bytes) THEN Len(data) ELSE offset + Len(bytes)) |->
        IF k > offset /\ k <= offset + Len(bytes) THEN bytes[k - offset]
        ELSE IF k <= Len(data) THEN data[k] ELSE 0]

\* An update call: pc is where it stands ("start", "create" before
\* File::create, "write" inside write_snapshot, "done"), snap the Snapshot it
\* built and returns, next the write it makes next, offset its file offset.
Idle == [pc |-> "start", snap |-> NoSnapshot, next |-> 1, offset |-> 0]

InitRace ==
    /\ files \in {[n \in Names |-> NoFile],
                  create([n \in Names |-> NoFile], NameA, RaceOld, DefaultConfig, 0).dir}
    /\ clock = 1
    /\ last = NoCall
    /\ writers = [w \in Writers |-> Idle]
    /\ hostile = <<>>
    /\ diff = NoDiff

\* update up to the Snapshot it builds (lines 648-688).
Begin(w, content, config) ==
    /\ writers[w].pc = "start"
    /\ writers' = [writers EXCEPT ![w].pc = "create",
                       ![w].snap = UpdatedSnapshot(files, NameA, content, config, clock, clock)]
    /\ UNCHANGED <<files, clock, last, hostile, diff>>

\* fs::File::create(path): the file is there and empty, the handle at offset 0.
Truncate(w) ==
    /\ writers[w].pc = "create"
    /\ files' = [files EXCEPT ![NameA] = File(<<>>)]
    /\ writers' = [writers EXCEPT ![w].pc = "write", ![w].next = 1, ![w].offset = 0]
    /\ UNCHANGED <<clock, last, hostile, diff>>

\* The writer's next writeln! or write_all, which writes bytes.
Wrote(w, bytes) ==
    /\ files' = [files EXCEPT ![NameA] =
                    File(WriteAt(files[NameA].data, writers[w].offset, bytes))]
    /\ writers' = [writers EXCEPT
                       ![w].pc = IF writers[w].next = 8 THEN "done" ELSE "write",
                       ![w].next = writers[w].next + 1,
                       ![w].offset = writers[w].offset + Len(bytes)]

WriteNext(w) ==
    /\ writers[w].pc = "write"
    /\ Wrote(w, WriteCalls(writers[w].snap)[writers[w].next])
    /\ UNCHANGED <<clock, last, hostile, diff>>

RaceDone == \A w \in Writers : writers[w].pc = "done"

\* The read that follows the calls.
RaceRead == RaceDone /\ Read(NameA)

NextRace ==
    \/ \E w \in Writers, content \in RaceContents, t \in {"text", "binary"} :
          Begin(w, content, [file_type |-> t, update_mode |-> FALSE])
    \/ \E w \in Writers : Truncate(w)
    \/ \E w \in Writers : WriteNext(w)
    \/ RaceRead

SpecRace == InitRace /\ [][NextRace]_vars

\* ------------------------------------------------------------------------
\* read on files that come from outside the store
\* ------------------------------------------------------------------------
\* A file of `lines` header lines "# K: x...x", each `width` bytes long with
\* its '\n', then "---" (if separator), then `size` bytes 'x'.
HostileShapes ==
    [lines : {0, 1, MAX_HEADER_LINES - 1, MAX_HEADER_LINES, MAX_HEADER_LINES + 1, 150},
     width : {8, MAX_HEADER_LINE_LENGTH, MAX_HEADER_LINE_LENGTH + 1},
     separator : BOOLEAN,
     size : {0, 1, MAX_CONTENT_SIZE, MAX_CONTENT_SIZE + 1}]

\* bytes, n times over.
Repeat(bytes, n) ==
    [k \in 1..(n * Len(bytes)) |-> bytes[((k - 1) % Len(bytes)) + 1]]

HostileFile(shape) ==
    Repeat(<<35, 32, 75, 58, 32, Fill(shape.width - 6), 10>>, shape.lines)
        \o (IF shape.separator THEN Separator \o <<10>> ELSE <<>>)
        \o (IF shape.size = 0 THEN <<>> ELSE <<Fill(shape.size)>>)

InitEnvelope ==
    /\ hostile \in HostileShapes
    /\ files = [n \in Names |-> IF n = NameA THEN File(HostileFile(hostile)) ELSE NoFile]
    /\ clock = 0
    /\ last = NoCall
    /\ writers = <<>>
    /\ diff = NoDiff

NextEnvelope ==
    \/ Read(NameA)
    \/ Exists(NameA)
    \/ List

SpecEnvelope == InitEnvelope /\ [][NextEnvelope]_vars

\* ------------------------------------------------------------------------
\* output-diffing-utility: usize
\* ------------------------------------------------------------------------
\* A usize is 64 bits wide: eight byte limbs, least significant first, as the
\* u64 of compute_hash.  Line numbers and indices, which stay small, are
\* plain integers.
RECURSIVE ToLimbs(_, _)
ToLimbs(n, k) == IF k = 0 THEN <<>> ELSE <<n % 256>> \o ToLimbs(n \div 256, k - 1)

USize(n) == ToLimbs(n, 8)

\* usize::MAX
USIZE_MAX == [k \in 1..8 |-> 255]

\* A usize below 2^24 and its value.
IsSmall(x) == \A k \in 4..8 : x[k] = 0
Small(x) == x[1] + 256 * x[2] + 65536 * x[3]

\* The limbs of a + b from limb k on, followed by the carry out.
RECURSIVE AddFrom(_, _, _, _)
AddFrom(a, b, k, carry) ==
    IF k > 8 THEN <<carry>>
    ELSE <<(a[k] + b[k] + carry) % 256>>
            \o AddFrom(a, b, k + 1, (a[k] + b[k] + carry) \div 256)

\* a + b: the sum modulo 2^64 and whether it overflowed.
overflowing_add(a, b) ==
    [value |-> SubSeq(AddFrom(a, b, 1, 0), 1, 8),
     overflow |-> AddFrom(a, b, 1, 0)[9] = 1]

\* x.saturating_sub(y) for a small x.
saturating_sub(x, y) ==
    IF ~IsSmall(y) \/ Small(y) >= x THEN 0 ELSE x - Small(y)

\* x.min(len) for a small len.
min(x, len) == IF IsSmall(x) /\ Small(x) < len THEN Small(x) ELSE len

\* The two ways a build treats an overflowing `+`: with overflow checks
\* (debug) it panics, without (release) the sum wraps.
Builds == {"debug", "release"}

\* ------------------------------------------------------------------------
\* output-diffing-utility: diff_text
\* ------------------------------------------------------------------------
\* The position of the first '\n' of text at or after i, Len(text) + 1 if none.
RECURSIVE NextNewline(_, _)
NextNewline(text, i) ==
    IF i > Len(text) \/ text[i] = 10 THEN i ELSE NextNewline(text, i + 1)

\* A line without its terminator: "\n", or "\r\n".
StripLine(piece, terminated) ==
    IF terminated /\ piece # <<>> /\ piece[Len(piece)] = 13
    THEN SubSeq(piece, 1, Len(piece) - 1) ELSE piece

RECURSIVE LinesFrom(_, _)
LinesAt(text, i, e) ==
    <<StripLine(SubSeq(text, i, e - 1), e <= Len(text))>> \o LinesFrom(text, e + 1)

LinesFrom(text, i) ==
    IF i > Len(text) THEN <<>> ELSE LinesAt(text, i, NextNewline(text, i))

\* str::lines().collect()
lines(text) == LinesFrom(text, 1)

Max(x, y) == IF x >= y THEN x ELSE y

\* dp[i][j] of compute_lcs.
RECURSIVE dp(_, _, _, _)
\* dp[i][j] where equal lines add nothing to dp[i - 1][j - 1].
dp_without_match(a, b, i, j) ==
    IF i = 0 \/ j = 0 THEN 0
    ELSE IF a[i] = b[j] THEN dp(a, b, i - 1, j - 1)
    ELSE Max(dp(a, b, i - 1, j), dp(a, b, i, j - 1))

dp(a, b, i, j) ==
    IF i = 0 \/ j = 0 THEN 0
    ELSE IF a[i] = b[j] THEN dp(a, b, i - 1, j - 1) + 1
    ELSE Max(dp(a, b, i - 1, j), dp(a, b, i, j - 1))

\* The backtrack of compute_lcs from (i, j): the indices into b, counted from
\* 0, in the order they are pushed.
RECURSIVE Backtrack(_, _, _, _)
Backtrack(a, b, i, j) ==
    IF ~(i > 0 /\ j > 0) THEN <<>>
    ELSE IF a[i] = b[j] THEN <<j - 1>> \o Backtrack(a, b, i - 1, j - 1)
    ELSE IF dp(a, b, i - 1, j) > dp(a, b, i, j - 1) THEN Backtrack(a, b, i - 1, j)
    ELSE Backtrack(a, b, i, j - 1)

\* Vec::reverse
reverse(v) == [k \in 1..Len(v) |-> v[Len(v) + 1 - k]]

\* compute_lcs without lcs_indices.reverse().
compute_lcs_unreversed(a, b) == Backtrack(a, b, Len(a), Len(b))

compute_lcs(a, b) == reverse(Backtrack(a, b, Len(a), Len(b)))

\* LineChange; a line number the variant does not have is 0.
Unchanged(line, old_line_num, new_line_num) ==
    [kind |-> "Unchanged", line |-> line,
     old_line_num |-> old_line_num, new_line_num |-> new_line_num]
Added(line, new_line_num) ==
    [kind |-> "Added", line |-> line, old_line_num |-> 0, new_line_num |-> new_line_num]
\* Removed with the line number 1 whatever the line.
RemovedAtFirstLine(line, old_line_num) ==
    [kind |-> "Removed", line |-> line, old_line_num |-> 1, new_line_num |-> 0]

Removed(line, old_line_num) ==
    [kind |-> "Removed", line |-> line, old_line_num |-> old_line_num, new_line_num |-> 0]

\* lcs_iter.clone().any(...): old_lines[old_idx] is the new line of an LCS
\* index not yet consumed (k is the number consumed).
old_line_in_lcs(old_lines, new_lines, lcs_indices, old_idx, k) ==
    /\ old_idx < Len(old_lines)
    /\ \E q \in (k + 1)..Len(lcs_indices) :
          /\ lcs_indices[q] < Len(new_lines)
          /\ old_lines[old_idx + 1] = new_lines[lcs_indices[q] + 1]

\* The first pass of build_changes_from_lcs from (old_idx, new_idx), both
\* counted from 0, with k LCS indices consumed.
RECURSIVE FirstPass(_, _, _, _, _, _)
FirstPass(old_lines, new_lines, lcs_indices, old_idx, new_idx, k) ==
    IF ~(old_idx < Len(old_lines) \/ new_idx < Len(new_lines)) THEN <<>>
    ELSE IF k < Len(lcs_indices) /\ new_idx = lcs_indices[k + 1]
    THEN <<Unchanged(new_lines[new_idx + 1], old_idx + 1, new_idx + 1)>>
            \o FirstPass(old_lines, new_lines, lcs_indices, old_idx + 1, new_idx + 1, k + 1)
    ELSE IF ~old_line_in_lcs(old_lines, new_lines, lcs_indices, old_idx, k)
              /\ old_idx < Len(old_lines)
    THEN <<Removed(old_lines[old_idx + 1], old_idx + 1)>>
            \o FirstPass(old_lines, new_lines, lcs_indices, old_idx + 1, new_idx, k)
    ELSE IF new_idx < Len(new_lines)
    THEN <<Added(new_lines[new_idx + 1], new_idx + 1)>>
            \o FirstPass(old_lines, new_lines, lcs_indices, old_idx, new_idx + 1, k)
    ELSE <<>>

\* The indices (from 0) of the entries that are not Unchanged.
change_indices(all_changes) ==
    {i \in 0..(Len(all_changes) - 1) : all_changes[i + 1].kind # "Unchanged"}

\* change_idx + context_lines + 1
EndSum(change_idx, context_lines) ==
    overflowing_add(overflowing_add(USize(change_idx), context_lines).value, USize(1))

EndOverflows(change_idx, context_lines) ==
    \/ overflowing_add(USize(change_idx), context_lines).overflow
    \/ EndSum(change_idx, context_lines).overflow

\* What one change marks in `included`: itself, start..change_idx and
\* change_idx + 1..end.
Marks(change_idx, context_lines, len) ==
    {i \in 0..(len - 1) :
        \/ i = change_idx
        \/ i >= saturating_sub(change_idx, context_lines) /\ i < change_idx
        \/ i >= change_idx + 1 /\ i < min(EndSum(change_idx, context_lines).value, len)}

included(all_changes, context_lines) ==
    UNION {Marks(c, context_lines, Len(all_changes)) : c \in change_indices(all_changes)}

\* The entries of all_changes at the indices of keep, in order.
RECURSIVE Filtered(_, _, _)
Filtered(all_changes, keep, i) ==
    IF i >= Len(all_changes) THEN <<>>
    ELSE (IF i \in keep THEN <<all_changes[i + 1]>> ELSE <<>>)
            \o Filtered(all_changes, keep, i + 1)

\* The second pass.  A returned value is [panic |-> FALSE, changes |-> ...];
\* an overflowing sum under overflow checks is a panic.
SecondPass(all_changes, context_lines, build) ==
    IF context_lines = USIZE_MAX THEN [panic |-> FALSE, changes |-> all_changes]
    ELSE IF change_indices(all_changes) = {} THEN [panic |-> FALSE, changes |-> <<>>]
    ELSE IF build = "debug"
              /\ \E c \in change_indices(all_changes) : EndOverflows(c, context_lines)
    THEN [panic |-> TRUE, changes |-> <<>>]
    ELSE [panic |-> FALSE,
          changes |-> Filtered(all_changes, included(all_changes, context_lines), 0)]

build_changes_from_lcs(old_lines, new_lines, lcs_indices, context_lines, build) ==
    SecondPass(FirstPass(old_lines, new_lines, lcs_indices, 0, 0, 0), context_lines, build)

\* TextDiffResult, or the panic.
TextDiffResult(built, old_lines, new_lines) ==
    [panic |-> built.panic, changes |-> built.changes,
     old_line_count |-> Len(old_lines), new_line_count |-> Len(new_lines)]

DiffLines(old_lines, new_lines, context_lines, build) ==
    TextDiffResult(
        build_changes_from_lcs(old_lines, new_lines, compute_lcs(old_lines, new_lines),
                               context_lines, build),
        old_lines, new_lines)

diff_text(old, new, context_lines, build) ==
    DiffLines(lines(old), lines(new), context_lines, build)

\* has_changes, additions, deletions
Count(changes, kind) == Cardinality({i \in 1..Len(changes) : changes[i].kind = kind})
has_changes(result) == \E i \in 1..Len(result.changes) : result.changes[i].kind # "Unchanged"
additions(result) == Count(result.changes, "Added")
deletions(result) == Count(result.changes, "Removed")

\* The texts: every string of at most MaxText characters 'a', 'b', '\n', and
\* "a\r\nb", "a\nb\na", "b\na\nb".
MaxText == 3
Seqs(S, n) == UNION {[1..k -> S] : k \in 0..n}
Texts ==
    Seqs({97, 98, 10}, MaxText)
        \cup {<<97, 13, 10, 98>>, <<97, 10, 98, 10, 97>>, <<98, 10, 97, 10, 98>>}

\* context_lines: 0, 1, usize::MAX - 1 and usize::MAX (show all, the default).
ContextLines == {USize(0), USize(1), [k \in 1..8 |-> IF k = 1 THEN 254 ELSE 255], USIZE_MAX}

InitText ==
    /\ files = [n \in Names |-> NoFile]
    /\ clock = 0
    /\ last = NoCall
    /\ writers = <<>>
    /\ hostile = <<>>
    /\ diff \in [op : {"args"}, old : Texts, new : Texts, context_lines : ContextLines]

DiffText(build) ==
    /\ diff.op = "args"
    /\ diff' = [op |-> "diff_text", old |-> diff.old, new |-> diff.new,
                context_lines |-> diff.context_lines, build |-> build,
                result |-> diff_text(diff.old, diff.new, diff.context_lines, build)]
    /\ UNCHANGED <<files, clock, last, writers, hostile>>

NextText == \E build \in Builds : DiffText(build)

SpecText == InitText /\ [][NextText]_vars

\* ------------------------------------------------------------------------
\* output-diffing-utility: diff_binary
\* ------------------------------------------------------------------------
\* Option<u8>
None == [some |-> FALSE, value |-> 0]
Some(v) == [some |-> TRUE, value |-> v]

\* slice.get(i).copied()
get(v, i) == IF i < Len(v) THEN Some(v[i + 1]) ELSE None

ByteDifference(offset, old_byte, new_byte) ==
    [offset |-> offset, old_byte |-> old_byte, new_byte |-> new_byte]

\* The shorter length instead of the longer.
min_len(old, new) == IF Len(old) <= Len(new) THEN Len(old) ELSE Len(new)

\* old.len().max(new.len())
max_len(old, new) == Max(Len(old), Len(new))

\* The loop of diff_binary from offset i on.
RECURSIVE DifferencesFrom(_, _, _, _)
DifferencesFrom(old, new, i, end) ==
    IF i >= end THEN <<>>
    ELSE (IF get(old, i) # get(new, i)
          THEN <<ByteDifference(i, get(old, i), get(new, i))>> ELSE <<>>)
            \o DifferencesFrom(old, new, i + 1, end)

\* BinaryDiffResult
diff_binary(old, new) ==
    [differences |-> DifferencesFrom(old, new, 0, max_len(old, new)),
     old_size |-> Len(old), new_size |-> Len(new)]

binary_additions(result) ==
    Cardinality({i \in 1..Len(result.differences) : ~result.differences[i].old_byte.some})
binary_deletions(result) ==
    Cardinality({i \in 1..Len(result.differences) : ~result.differences[i].new_byte.some})
binary_modifications(result) ==
    Cardinality({i \in 1..Len(result.differences) :
                    result.differences[i].old_byte.some /\ result.differences[i].new_byte.some})

\* The byte strings: at most MaxBytes bytes 0x00, 'a', 0xFF.
MaxBytes == 3
ByteStrings == Seqs({0, 97, 255}, MaxBytes)

InitBinary ==
    /\ files = [n \in Names |-> NoFile]
    /\ clock = 0
    /\ last = NoCall
    /\ writers = <<>>
    /\ hostile = <<>>
    /\ diff \in [op : {"args"}, old : ByteStrings, new : ByteStrings]

DiffBinary ==
    /\ diff.op = "args"
    /\ diff' = [op |-> "diff_binary", old |-> diff.old, new |-> diff.new,
                result |-> diff_binary(diff.old, diff.new)]
    /\ UNCHANGED <<files, clock, last, writers, hostile>>

NextBinary == DiffBinary

SpecBinary == InitBinary /\ [][NextBinary]_vars

\* ------------------------------------------------------------------------
\* output-diffing-utility: the JSON parser (json.rs)
\* ------------------------------------------------------------------------
\* JsonValue, every variant with the same fields.  A Number holds an integer:
\* the number literals of the inputs are integers.
JsonValue(kind, bool, num, str, items, pairs) ==
    [kind |-> kind, bool |-> bool, num |-> num, str |-> str, items |-> items, pairs |-> pairs]
Null == JsonValue("Null", FALSE, 0, <<>>, <<>>, <<>>)
Bool(b) == JsonValue("Bool", b, 0, <<>>, <<>>, <<>>)
Number(n) == JsonValue("Number", FALSE, n, <<>>, <<>>, <<>>)
String(s) == JsonValue("String", FALSE, 0, s, <<>>, <<>>)
Array(values) == JsonValue("Array", FALSE, 0, <<>>, values, <<>>)
Object(pairs) == JsonValue("Object", FALSE, 0, <<>>, <<>>, pairs)

\* Result<_, JsonError> of a parse function, with the position of the next
\* character of `chars`; the message is the text and what format! puts in it.
ParseOk(value, pos) == [ok |-> TRUE, value |-> value, message |-> "", arg |-> <<>>, pos |-> pos]
JsonError(message, arg) ==
    [ok |-> FALSE, value |-> Null, message |-> message, arg |-> arg, pos |-> 0]

\* chars.peek(): the character at pos, -1 for None.
Peek(chars, pos) == IF pos <= Len(chars) THEN chars[pos] ELSE -1

RECURSIVE skip_whitespace(_, _)
skip_whitespace(chars, pos) ==
    IF Peek(chars, pos) \in {32, 10, 13, 9} THEN skip_whitespace(chars, pos + 1) ELSE pos

\* The character an escape stands for, -1 for an invalid escape.
Escape(c) ==
    IF c = 110 THEN 10 ELSE IF c = 114 THEN 13 ELSE IF c = 116 THEN 9
    ELSE IF c = 92 THEN 92 ELSE IF c = 34 THEN 34 ELSE -1

\* The loop of parse_string.
RECURSIVE StringLoop(_, _, _)
StringLoop(chars, pos, string) ==
    IF Peek(chars, pos) = 34 THEN ParseOk(string, pos + 1)
    ELSE IF Peek(chars, pos) = 92
    THEN IF Escape(Peek(chars, pos + 1)) = -1
         THEN JsonError("Invalid escape sequence", <<>>)
         ELSE StringLoop(chars, pos + 2, Append(string, Escape(Peek(chars, pos + 1))))
    ELSE IF Peek(chars, pos) = -1 THEN JsonError("Unterminated string", <<>>)
    ELSE StringLoop(chars, pos + 1, Append(string, chars[pos]))

parse_string(chars, pos) ==
    IF Peek(chars, pos) # 34 THEN JsonError("Expected '\"'", <<>>)
    ELSE StringLoop(chars, pos + 1, <<>>)

\* The end of the run of characters of `class` that starts at pos.
RECURSIVE RunEnd(_, _, _)
RunEnd(chars, pos, class) ==
    IF Peek(chars, pos) \in class THEN RunEnd(chars, pos + 1, class) ELSE pos

\* str::parse::<f64> on a string of digits and '-': an optional '-' and one
\* digit at least; the value (leading zeros do not count).
ValidNumber(num_str) ==
    /\ num_str # <<>>
    /\ \A i \in 1..Len(num_str) : num_str[i] \in 48..57 \/ (i = 1 /\ num_str[i] = 45)
    /\ num_str # <<45>>

parse_f64(num_str) ==
    IF num_str[1] = 45 THEN 0 - DecValue(Tail(num_str), 1, 0) ELSE DecValue(num_str, 1, 0)

NumberOf(num_str, pos) ==
    IF ValidNumber(num_str) THEN ParseOk(Number(parse_f64(num_str)), pos)
    ELSE JsonError("Invalid number: ", num_str)

\* '0'..='9', '.', 'e', 'E', '+', '-'
NumberChars == (48..57) \cup {46, 101, 69, 43, 45}

NumberEnd(chars, pos) ==
    RunEnd(chars, IF Peek(chars, pos) = 45 THEN pos + 1 ELSE pos, NumberChars)

parse_number(chars, pos) ==
    NumberOf(SubSeq(chars, pos, NumberEnd(chars, pos) - 1), NumberEnd(chars, pos))

\* true, false, null
TrueWord == <<116, 114, 117, 101>>
FalseWord == <<102, 97, 108, 115, 101>>
NullWord == <<110, 117, 108, 108>>

BoolOf(word, pos) ==
    IF word = TrueWord THEN ParseOk(Bool(TRUE), pos)
    ELSE IF word = FalseWord THEN ParseOk(Bool(FALSE), pos)
    ELSE JsonError("Invalid boolean: ", word)

parse_bool(chars, pos) ==
    BoolOf(SubSeq(chars, pos, RunEnd(chars, pos, 97..122) - 1), RunEnd(chars, pos, 97..122))

NullOf(word, pos) ==
    IF word = NullWord THEN ParseOk(Null, pos) ELSE JsonError("Invalid null: ", word)

parse_null(chars, pos) ==
    NullOf(SubSeq(chars, pos, RunEnd(chars, pos, 97..122) - 1), RunEnd(chars, pos, 97..122))

\* parse_string(chars).map(JsonValue::String)
StringValue(r) == IF r.ok THEN ParseOk(String(r.value), r.pos) ELSE r

RECURSIVE parse_value(_, _)
RECURSIVE ObjectLoop(_, _, _)
RECURSIVE ArrayLoop(_, _, _)

\* parse_object after a pair: ',' goes round the loop, '}' ends it.
ObjectNext(chars, pairs, pos) ==
    IF Peek(chars, pos) = 44 THEN ObjectLoop(chars, pos + 1, pairs)
    ELSE IF Peek(chars, pos) = 125 THEN ParseOk(Object(pairs), pos + 1)
    ELSE JsonError("Expected ',' or '}'", <<>>)

ObjectValue(chars, key, value, pairs) ==
    IF ~value.ok THEN value
    ELSE ObjectNext(chars, Append(pairs, [key |-> key, value |-> value.value]),
                    skip_whitespace(chars, value.pos))

ObjectColon(chars, key, pos, pairs) ==
    IF Peek(chars, pos) # 58 THEN JsonError("Expected ':'", <<>>)
    ELSE ObjectValue(chars, key, parse_value(chars, pos + 1), pairs)

ObjectKey(chars, key, pairs) ==
    IF ~key.ok THEN key
    ELSE ObjectColon(chars, key.value, skip_whitespace(chars, key.pos), pairs)

\* One turn of the loop of parse_object.
ObjectLoop(chars, pos, pairs) ==
    ObjectKey(chars, parse_string(chars, skip_whitespace(chars, pos)), pairs)

ObjectOpen(chars, pos) ==
    IF Peek(chars, pos) = 125 THEN ParseOk(Object(<<>>), pos + 1)
    ELSE ObjectLoop(chars, pos, <<>>)

\* pos is at '{'.
parse_object(chars, pos) == ObjectOpen(chars, skip_whitespace(chars, pos + 1))

ArrayNext(chars, values, pos) ==
    IF Peek(chars, pos) = 44 THEN ArrayLoop(chars, pos + 1, values)
    ELSE IF Peek(chars, pos) = 93 THEN ParseOk(Array(values), pos + 1)
    ELSE JsonError("Expected ',' or ']'", <<>>)

ArrayValue(chars, value, values) ==
    IF ~value.ok THEN value
    ELSE ArrayNext(chars, Append(values, value.value), skip_whitespace(chars, value.pos))

\* One turn of the loop of parse_array.
ArrayLoop(chars, pos, values) == ArrayValue(chars, parse_value(chars, pos), values)

ArrayOpen(chars, pos) ==
    IF Peek(chars, pos) = 93 THEN ParseOk(Array(<<>>), pos + 1)
    ELSE ArrayLoop(chars, pos, <<>>)

\* pos is at '['.
parse_array(chars, pos) == ArrayOpen(chars, skip_whitespace(chars, pos + 1))

\* The match of parse_value on the character at pos.
ValueAt(chars, pos) ==
    IF Peek(chars, pos) = 123 THEN parse_object(chars, pos)
    ELSE IF Peek(chars, pos) = 91 THEN parse_array(chars, pos)
    ELSE IF Peek(chars, pos) = 34 THEN StringValue(parse_string(chars, pos))
    ELSE IF Peek(chars, pos) \in {116, 102} THEN parse_bool(chars, pos)
    ELSE IF Peek(chars, pos) = 110 THEN parse_null(chars, pos)
    ELSE IF Peek(chars, pos) = 45 \/ Peek(chars, pos) \in 48..57 THEN parse_number(chars, pos)
    ELSE JsonError("Unexpected character", <<>>)

parse_value(chars, pos) == ValueAt(chars, skip_whitespace(chars, pos))

parse_json(input) == parse_value(trim(input), 1)

\* ------------------------------------------------------------------------
\* output-diffing-utility: diff_json
\* ------------------------------------------------------------------------
\* JsonChange; a Removed has its value as old_value, an Added as new_value.
JsonAdded(path, value) ==
    [kind |-> "Added", path |-> path, old_value |-> Null, new_value |-> value]
JsonRemoved(path, value) ==
    [kind |-> "Removed", path |-> path, old_value |-> value, new_value |-> Null]
Modified(path, old_value, new_value) ==
    [kind |-> "Modified", path |-> path, old_value |-> old_value, new_value |-> new_value]
TypeChanged(path, old_value, new_value) ==
    [kind |-> "TypeChanged", path |-> path, old_value |-> old_value, new_value |-> new_value]

\* (a - b).abs() > f64::EPSILON on integers.
ExceedsEpsilon(a, b) == a # b

\* format!("[{}]", i) and format!("{}[{}]", path, i)
element_path(path, i) ==
    IF path = <<>> THEN <<91>> \o to_string(i) \o <<93>>
    ELSE path \o <<91>> \o to_string(i) \o <<93>>

\* The key alone under every parent.
field_path_bare(path, key) == key

\* key.to_string() and format!("{}.{}", path, key)
field_path(path, key) == IF path = <<>> THEN key ELSE path \o <<46>> \o key

\* The keys of old_obj and new_obj, each once.
all_keys(old_obj, new_obj) ==
    {old_obj[i].key : i \in 1..Len(old_obj)} \cup {new_obj[i].key : i \in 1..Len(new_obj)}

\* The orders in which a HashSet may hand out its elements: all of them.
Orders(set) ==
    {order \in [1..Cardinality(set) -> set] :
        \A i, j \in 1..Cardinality(set) : i # j => order[i] # order[j]}

\* The index of the last pair with the key.
find_last(obj, key) ==
    IF \E i \in 1..Len(obj) : obj[i].key = key
    THEN CHOOSE i \in 1..Len(obj) : obj[i].key = key /\ \A j \in (i + 1)..Len(obj) : obj[j].key # key
    ELSE 0

\* obj.iter().find(|(k, _)| k == key): the index of the first pair with the
\* key, 0 for None.
find(obj, key) ==
    IF \E i \in 1..Len(obj) : obj[i].key = key
    THEN CHOOSE i \in 1..Len(obj) : obj[i].key = key /\ \A j \in 1..(i - 1) : obj[j].key # key
    ELSE 0

\* The sequences of A followed by those of B.
Cat(A, B) == {x \o y : x \in A, y \in B}

\* compare_json_values yields the set of sequences it may push to `changes`:
\* the order of the keys of an object is the HashSet's.
RECURSIVE compare_json_values(_, _, _)

\* The match on (old_arr.get(i), new_arr.get(i)).
ElementChanges(element_path_i, old_arr, new_arr, i) ==
    IF i < Len(old_arr) /\ i < Len(new_arr)
    THEN compare_json_values(element_path_i, old_arr[i + 1], new_arr[i + 1])
    ELSE IF i < Len(old_arr) THEN {<<JsonRemoved(element_path_i, old_arr[i + 1])>>}
    ELSE {<<JsonAdded(element_path_i, new_arr[i + 1])>>}

RECURSIVE ArrayChanges(_, _, _, _, _)
ArrayChanges(path, old_arr, new_arr, i, end) ==
    IF i >= end THEN {<<>>}
    ELSE Cat(ElementChanges(element_path(path, i), old_arr, new_arr, i),
             ArrayChanges(path, old_arr, new_arr, i + 1, end))

\* The match on (old_val, new_val), given as indices of find.
FieldChanges(field_path_key, old_obj, new_obj, old_val, new_val) ==
    IF old_val # 0 /\ new_val # 0
    THEN compare_json_values(field_path_key, old_obj[old_val].value, new_obj[new_val].value)
    ELSE IF old_val # 0 THEN {<<JsonRemoved(field_path_key, old_obj[old_val].value)>>}
    ELSE {<<JsonAdded(field_path_key, new_obj[new_val].value)>>}

\* for key in all_keys, in the order `order`, from its k-th key on.
RECURSIVE ObjectChanges(_, _, _, _, _)
ObjectChanges(path, old_obj, new_obj, order, k) ==
    IF k > Len(order) THEN {<<>>}
    ELSE Cat(FieldChanges(field_path(path, order[k]), old_obj, new_obj,
                          find(old_obj, order[k]), find(new_obj, order[k])),
             ObjectChanges(path, old_obj, new_obj, order, k + 1))

\* A Modified where the scalars differ.
ModifiedIf(differ, path, old, new) ==
    IF differ THEN {<<Modified(path, old, new)>>} ELSE {<<>>}

compare_json_values(path, old, new) ==
    IF old.kind = "Null" /\ new.kind = "Null" THEN {<<>>}
    ELSE IF old.kind = "Bool" /\ new.kind = "Bool"
    THEN ModifiedIf(old.bool # new.bool, path, old, new)
    ELSE IF old.kind = "Number" /\ new.kind = "Number"
    THEN ModifiedIf(ExceedsEpsilon(old.num, new.num), path, old, new)
    ELSE IF old.kind = "String" /\ new.kind = "String"
    THEN ModifiedIf(old.str # new.str, path, old, new)
    ELSE IF old.kind = "Array" /\ new.kind = "Array"
    THEN ArrayChanges(path, old.items, new.items, 0, max_len(old.items, new.items))
    ELSE IF old.kind = "Object" /\ new.kind = "Object"
    THEN UNION {ObjectChanges(path, old.pairs, new.pairs, order, 1) :
                   order \in Orders(all_keys(old.pairs, new.pairs))}
    ELSE {<<TypeChanged(path, old, new)>>}

\* Result<JsonDiffResult, JsonError>
JsonDiffResult(changes) == [ok |-> TRUE, changes |-> changes, message |-> "", arg |-> <<>>]
JsonFailure(r) == [ok |-> FALSE, changes |-> <<>>, message |-> r.message, arg |-> r.arg]

\* The error of the new text first.
ComparedNewFirst(old_value, new_value) ==
    IF ~new_value.ok THEN {JsonFailure(new_value)}
    ELSE IF ~old_value.ok THEN {JsonFailure(old_value)}
    ELSE {JsonDiffResult(changes) :
             changes \in compare_json_values(<<>>, old_value.value, new_value.value)}

\* diff_json once both texts are parsed: the results it may return.
Compared(old_value, new_value) ==
    IF ~old_value.ok THEN {JsonFailure(old_value)}
    ELSE IF ~new_value.ok THEN {JsonFailure(new_value)}
    ELSE {JsonDiffResult(changes) :
             changes \in compare_json_values(<<>>, old_value.value, new_value.value)}

diff_json(old, new) == Compared(parse_json(old), parse_json(new))

\* JsonDiffResult::has_changes, additions, deletions, modifications
CountJson(changes, kinds) == Cardinality({i \in 1..Len(changes) : changes[i].kind \in kinds})
json_has_changes(result) == result.changes # <<>>
json_additions(result) == CountJson(result.changes, {"Added"})
json_deletions(result) == CountJson(result.changes, {"Removed"})
\* The Modified entries alone.
modified_only(result) == CountJson(result.changes, {"Modified"})

modifications(result) == CountJson(result.changes, {"Modified", "TypeChanged"})

\* The texts diff_json is called with.
\* null
JNull == <<110, 117, 108, 108>>
\* true
JTrue == <<116, 114, 117, 101>>
\* 1
JOne == <<49>>
\* "a"
JStr == <<34, 97, 34>>
\* [1,2]
JOneTwo == <<91, 49, 44, 50, 93>>
\* [1]
JOneOnly == <<91, 49, 93>>
\* {"a":1,"b":2}
JAB == <<123, 34, 97, 34, 58, 49, 44, 34, 98, 34, 58, 50, 125>>
\* {"a":2,"b":3}
JAB2 == <<123, 34, 97, 34, 58, 50, 44, 34, 98, 34, 58, 51, 125>>
\* {"u":{"n":"x"},"i":[1,2]}
JNested == <<123, 34, 117, 34, 58, 123, 34, 110, 34, 58, 34, 120, 34, 125, 44, 34, 105, 34, 58, 91, 49, 44, 50, 93, 125>>
\* {"u":{"n":"y"},"i":[1,2]}
JNested2 == <<123, 34, 117, 34, 58, 123, 34, 110, 34, 58, 34, 121, 34, 125, 44, 34, 105, 34, 58, 91, 49, 44, 50, 93, 125>>
\* {"u":{"n":"x"},"i":[1,3]}
JNested3 == <<123, 34, 117, 34, 58, 123, 34, 110, 34, 58, 34, 120, 34, 125, 44, 34, 105, 34, 58, 91, 49, 44, 51, 93, 125>>
\* {"u":[{"g":1}]}
JUsers == <<123, 34, 117, 34, 58, 91, 123, 34, 103, 34, 58, 49, 125, 93, 125>>
\* {"u":[{"g":2}]}
JUsers2 == <<123, 34, 117, 34, 58, 91, 123, 34, 103, 34, 58, 50, 125, 93, 125>>
\* {"a":[1]}
JArrIn == <<123, 34, 97, 34, 58, 91, 49, 93, 125>>
\*  { "a" : {"b":1} } 
JObjIn == <<32, 123, 32, 34, 97, 34, 32, 58, 32, 123, 34, 98, 34, 58, 49, 125, 32, 125, 32>>
\* 1 x
JTrail == <<49, 32, 120>>
\* {"a":1,}
JTrailingComma == <<123, 34, 97, 34, 58, 49, 44, 125>>
\* [1,
JOpen == <<91, 49, 44>>
\* tru
JTru == <<116, 114, 117>>
\* (empty)
JEmpty == <<>>
\* {"a" 1}
JNoColon == <<123, 34, 97, 34, 32, 49, 125>>
\* "ab
JUnterminated == <<34, 97, 98>>
\* -
JMinus == <<45>>
\* "\x"
JBadEscape == <<34, 92, 120, 34>>
\* [tru,-]
JTwoErrors == <<91, 116, 114, 117, 44, 45, 93>>

JsonTexts ==
    {JNull, JTrue, JOne, JStr, JOneTwo, JOneOnly, JAB, JAB2, JNested,
     JNested2, JNested3, JUsers, JUsers2, JArrIn, JObjIn, JTrail}
BadJsonTexts ==
    {JTrailingComma, JOpen, JTru, JEmpty, JNoColon, JUnterminated, JMinus,
     JBadEscape, JTwoErrors}

InitJson ==
    /\ files = [n \in Names |-> NoFile]
    /\ clock = 0
    /\ last = NoCall
    /\ writers = <<>>
    /\ hostile = <<>>
    /\ diff \in [op : {"args"}, old : JsonTexts \cup BadJsonTexts,
                 new : JsonTexts \cup BadJsonTexts]

DiffJson ==
    /\ diff.op = "args"
    /\ \E result \in diff_json(diff.old, diff.new) :
          diff' = [op |-> "diff_json", old |-> diff.old, new |-> diff.new, result |-> result]
    /\ UNCHANGED <<files, clock, last, writers, hostile>>

NextJson == DiffJson

SpecJson == InitJson /\ [][NextJson]_vars

\* ------------------------------------------------------------------------
\* output-diffing-utility: detect_file_type(content, extension)
\* ------------------------------------------------------------------------
\* The string as it is.
to_lowercase_unchanged(str) == str

\* str::to_lowercase on the ASCII strings the hints are.
to_lowercase(str) ==
    [i \in 1..Len(str) |-> IF str[i] >= 65 /\ str[i] <= 90 THEN str[i] + 32 ELSE str[i]]

\* "json"
JsonExtension == <<106, 115, 111, 110>>

\* "txt" | "md" | "log" | "rs" | "ts" | "js" | "py" | "c" | "h" | "cpp" | "hpp"
TextExtensions ==
    {<<116, 120, 116>>, <<109, 100>>, <<108, 111, 103>>, <<114, 115>>,
     <<116, 115>>, <<106, 115>>, <<112, 121>>, <<99>>, <<104>>,
     <<99, 112, 112>>, <<104, 112, 112>>}

\* The match on ext.to_lowercase(): the type it returns, "none" for the
\* arm that goes on to the content.
ExtensionMatch(ext) ==
    IF ext = JsonExtension THEN "json"
    ELSE IF ext \in TextExtensions THEN "text"
    ELSE "none"

\* The extension wins over the content when the match returns.
HintedType(matched, content) ==
    IF matched # "none" THEN matched ELSE detect_file_type(content)

\* extension: [some, value], Option<&str>.
detect_file_type_hinted(content, extension) ==
    IF extension.some THEN HintedType(ExtensionMatch(to_lowercase(extension.value)), content)
    ELSE detect_file_type(content)

\* The extension hints: None and Some of
\* "json", "JSON", "Json", "txt", "TXT", "Md", "log", "rs", "ts", "js",
\* "py", "c", "H", "cpp", "hpp", "bin", "jsonl", "", "xml", "text"
NoExtension == [some |-> FALSE, value |-> <<>>]
ExtensionHints ==
    {NoExtension} \cup
    {[some |-> TRUE, value |-> ext] : ext \in
        {<<106, 115, 111, 110>>, <<74, 83, 79, 78>>, <<74, 115, 111, 110>>,
         <<116, 120, 116>>, <<84, 88, 84>>, <<77, 100>>, <<108, 111, 103>>,
         <<114, 115>>, <<116, 115>>, <<106, 115>>, <<112, 121>>, <<99>>,
         <<72>>, <<99, 112, 112>>, <<104, 112, 112>>, <<98, 105, 110>>,
         <<106, 115, 111, 110, 108>>, <<>>, <<120, 109, 108>>,
         <<116, 101, 120, 116>>}}

\* The contents: empty, "a", "{}", one NUL, one byte that is no UTF-8, "e"
\* with an acute accent, U+0085 (a control character of two bytes), a line
\* feed, 19 of 20 and 18 of 19 characters other than control, and 19 of 20
\* with a byte that is no UTF-8.
DetectContents ==
    {<<>>, <<97>>, <<123, 125>>, <<0>>, <<255>>, <<195, 169>>, <<194, 133>>, <<10>>,
     <<Fill(19), 0>>, <<Fill(18), 0>>, <<Fill(19), 255>>, <<Fill(19), 194, 133>>,
     <<Fill(18), 195, 169, 0>>}

InitDetect ==
    /\ files = [n \in Names |-> NoFile]
    /\ clock = 0
    /\ last = NoCall
    /\ writers = <<>>
    /\ hostile = <<>>
    /\ diff \in [op : {"args"}, content : DetectContents, extension : ExtensionHints]

DetectFileType ==
    /\ diff.op = "args"
    /\ diff' = [op |-> "detect_file_type", content |-> diff.content,
                extension |-> diff.extension,
                result |-> detect_file_type_hinted(diff.content, diff.extension)]
    /\ UNCHANGED <<files, clock, last, writers, hostile>>

NextDetect == DetectFileType

SpecDetect == InitDetect /\ [][NextDetect]_vars

\* ------------------------------------------------------------------------
\* output-diffing-utility: format_side_by_side
\* ------------------------------------------------------------------------
\* A formatter's outcome: the String, or the panic that ends the call.
Formatted(output) == [panic |-> FALSE, why |-> "", output |-> output]
FormatPanic(why) == [panic |-> TRUE, why |-> why, output |-> <<>>]

\* str::is_char_boundary on the bytes of a string.
is_char_boundary(bytes, index) ==
    \/ index = 0
    \/ index = Len(bytes)
    \/ index < Len(bytes) /\ ~(bytes[index + 1] >= 128 /\ bytes[index + 1] <= 191)

\* width.saturating_sub(3)
width_saturating_sub_3(width) == IF width < 3 THEN 0 ELSE width - 3

\* &s[..end] of truncate_to_width followed by "...", on the bytes of s; a
\* slice that ends inside a character panics.
Truncated(bytes, end) ==
    IF is_char_boundary(bytes, end)
    THEN Formatted(from_utf8(SubSeq(bytes, 1, end)).chars \o <<46, 46, 46>>)
    ELSE FormatPanic("byte index is not a char boundary")

TruncateBytes(s, bytes, width) ==
    IF Len(bytes) <= width THEN Formatted(s)
    ELSE Truncated(bytes, width_saturating_sub_3(width))

truncate_to_width(s, width) == TruncateBytes(s, as_bytes(s), width)

\* format!("{:<width$}", s): s, then spaces up to width characters.
PadRight(s, width) == s \o [k \in 1..(width - Len(s)) |-> 32]

\* The row of one change: "{:<width$} | {}\n" and its like.
Row(kind, truncated, half_width) ==
    IF kind = "Unchanged"
    THEN PadRight(truncated, half_width) \o <<32, 124, 32>> \o truncated \o <<10>>
    ELSE IF kind = "Added"
    THEN PadRight(<<>>, half_width) \o <<32, 62, 32>> \o truncated \o <<10>>
    ELSE PadRight(truncated, half_width) \o <<32, 60, 32>> \o <<10>>

\* The rows of the changes from the i-th on, after `output`.
RECURSIVE RowsFrom(_, _, _, _)
RowAfter(changes, i, half_width, output, truncated) ==
    IF truncated.panic THEN truncated
    ELSE RowsFrom(changes, i + 1, half_width,
                  output \o Row(changes[i].kind, truncated.output, half_width))

RowsFrom(changes, i, half_width, output) ==
    IF i > Len(changes) THEN Formatted(output)
    ELSE RowAfter(changes, i, half_width, output,
                  truncate_to_width(changes[i].line, half_width))

\* "Side-by-side view not supported for binary files\n"
NotSupportedBinary ==
    <<83, 105, 100, 101, 45, 98, 121, 45, 115, 105, 100, 101, 32, 118, 105,
    101, 119, 32, 110, 111, 116, 32, 115, 117, 112, 112, 111, 114, 116, 101,
    100, 32, 102, 111, 114, 32, 98, 105, 110, 97, 114, 121, 32, 102, 105,
    108, 101, 115, 10>>

\* "Side-by-side view not supported for JSON diffs\n"
\* "Use --format compact or --format json instead\n"
NotSupportedJson ==
    <<83, 105, 100, 101, 45, 98, 121, 45, 115, 105, 100, 101, 32, 118, 105,
    101, 119, 32, 110, 111, 116, 32, 115, 117, 112, 112, 111, 114, 116, 101,
    100, 32, 102, 111, 114, 32, 74, 83, 79, 78, 32, 100, 105, 102, 102, 115,
    10, 85, 115, 101, 32, 45, 45, 102, 111, 114, 109, 97, 116, 32, 99, 111,
    109, 112, 97, 99, 116, 32, 111, 114, 32, 45, 45, 102, 111, 114, 109, 97,
    116, 32, 106, 115, 111, 110, 32, 105, 110, 115, 116, 101, 97, 100, 10>>

\* The header: the two names, and the rule under them.
SideBySideHeader(file1_name, file2_name, half_width) ==
    PadRight(file1_name, half_width) \o <<32, 124, 32>> \o file2_name \o <<10>>
    \o [k \in 1..half_width |-> 45] \o <<45, 43, 45>> \o [k \in 1..half_width |-> 45]
    \o <<10>>

\* The match on the result, after the header.
SideBySideBody(result, half_width, header) ==
    IF result.kind = "Text" THEN RowsFrom(result.changes, 1, half_width, header)
    ELSE IF result.kind = "Binary" THEN Formatted(header \o NotSupportedBinary)
    ELSE Formatted(header \o NotSupportedJson)

\* width - 3 overflows below 3: a panic where overflow is checked; otherwise
\* half_width is (2^64 - 3 + width) / 2, and the header's format! either
\* rejects that width or pads until the allocation of the String fails.
format_side_by_side(result, file1_name, file2_name, width, build) ==
    IF width < 3
    THEN FormatPanic(IF build = "debug" THEN "attempt to subtract with overflow"
                     ELSE "padding to half_width")
    ELSE SideBySideBody(result, (width - 3) \div 2,
                        SideBySideHeader(file1_name, file2_name, (width - 3) \div 2))

\* DiffResult: the kind, and the changes of a Text result.
DiffResult(kind, changes) == [kind |-> kind, changes |-> changes]

\* The lines: "ab", "abcdefgh", and four times "e" with an acute accent.
LineAB == <<97, 98>>
LineLong == <<97, 98, 99, 100, 101, 102, 103, 104>>
LineAccents == <<233, 233, 233, 233>>

FormatLines == {LineAB, LineLong, LineAccents}

\* The results: a Binary and a Json one, and Text ones of no change, of one
\* change of each kind, and of three.
FormatResults ==
    {DiffResult("Binary", <<>>), DiffResult("Json", <<>>), DiffResult("Text", <<>>)}
    \cup {DiffResult("Text", <<Unchanged(line, 1, 1)>>) : line \in FormatLines}
    \cup {DiffResult("Text", <<Removed(line, 1)>>) : line \in FormatLines}
    \cup {DiffResult("Text", <<Added(line, 1)>>) : line \in FormatLines}
    \cup {DiffResult("Text", <<Unchanged(LineAB, 1, 1), Removed(LineLong, 2),
                                Added(LineAccents, 2)>>)}

MaxWidth == 14
Widths == 0..MaxWidth

InitFormat ==
    /\ files = [n \in Names |-> NoFile]
    /\ clock = 0
    /\ last = NoCall
    /\ writers = <<>>
    /\ hostile = <<>>
    /\ diff \in [op : {"args"}, result : FormatResults, width : Widths]

FormatSideBySide(build) ==
    /\ diff.op = "args"
    /\ diff' = [op |-> "format_side_by_side", result |-> diff.result, width |-> diff.width,
                build |-> build,
                formatted |-> format_side_by_side(diff.result, <<97>>, <<98>>,
                                                  diff.width, build)]
    /\ UNCHANGED <<files, clock, last, writers, hostile>>

NextFormat == \E build \in Builds : FormatSideBySide(build)

SpecFormat == InitFormat /\ [][NextFormat]_vars

\* ------------------------------------------------------------------------
\* snapshot-comparison: check with its diff
\* ------------------------------------------------------------------------
\* DiffOutput, or what ends the match on file_type without one: kind is
\* "Text", "Json" or "Binary" with the differ's result, "InvalidUtf8" for the
\* error of from_utf8, "panic" for a differ that panicked.
DiffOutput(kind, result) == [kind |-> kind, result |-> result]
NoOutput == DiffOutput("none", <<>>)

\* DiffOutput::Text(diff_text(expected_str, actual_str, &diff_config))
TextOutput(result) ==
    IF result.panic THEN DiffOutput("panic", <<>>) ELSE DiffOutput("Text", result)

\* The match on diff_json's result: Err falls back to diff_text.
JsonOrText(result, expected_str, actual_str, context_lines, build) ==
    IF result.ok THEN DiffOutput("Json", result)
    ELSE TextOutput(diff_text(expected_str, actual_str, context_lines, build))

\* The arms for Text and Json on the two decoded strings.
DecodedOutputs(file_type, expected_str, actual_str, context_lines, build) ==
    IF ~expected_str.ok \/ ~actual_str.ok THEN {DiffOutput("InvalidUtf8", <<>>)}
    ELSE IF file_type = "text"
    THEN {TextOutput(diff_text(expected_str.chars, actual_str.chars, context_lines, build))}
    ELSE {JsonOrText(result, expected_str.chars, actual_str.chars, context_lines, build) :
             result \in diff_json(expected_str.chars, actual_str.chars)}

\* let diff = match file_type { ... }: the outputs it may have.
DiffOutputs(file_type, expected, actual, context_lines, build) ==
    IF file_type = "binary" THEN {DiffOutput("Binary", diff_binary(expected, actual))}
    ELSE DecodedOutputs(file_type, from_utf8(expected), from_utf8(actual),
                        context_lines, build)

\* DiffOutput::has_changes
output_has_changes(output) ==
    IF output.kind = "Text" THEN has_changes(output.result)
    ELSE IF output.kind = "Json" THEN json_has_changes(output.result)
    ELSE output.result.differences # <<>>

\* config.file_type.unwrap_or(snapshot.metadata.file_type)
CheckFileType(config, snapshot) ==
    IF config.file_type = "none" THEN snapshot.file_type ELSE config.file_type

\* check that returned r = [dir, res] with the diff `output`; a panic of the
\* differ ends the call before update and before it returns.
CheckReturned(name, actual, config, context_lines, build, r, output) ==
    /\ files' = IF output.kind = "panic" THEN files ELSE r.dir
    /\ last' = Call("check", name, actual, config, {}, FALSE, clock,
                    IF output.kind = "panic"
                    THEN Res("panic", "", NoSnapshot, FALSE, <<>>, <<>>)
                    ELSE OfResult(r.res))
    /\ diff' = [op |-> "check", context_lines |-> context_lines, build |-> build,
                output |-> output]

\* The outputs of the match for the snapshot that read returned.
SnapshotOutputs(config, snapshot, actual, context_lines, build) ==
    DiffOutputs(CheckFileType(config, snapshot), snapshot.content, actual,
                context_lines, build)

\* The diff is built when the hashes differ, whatever update_mode is; r is
\* what check returns when the differ does.
CheckWith(name, actual, config, context_lines, build, r, snapshot) ==
    IF r.res.kind \in {"Mismatch", "Updated", "InvalidUtf8"}
    THEN \E output \in SnapshotOutputs(config, snapshot, actual, context_lines, build) :
            CheckReturned(name, actual, config, context_lines, build, r, output)
    ELSE CheckReturned(name, actual, config, context_lines, build, r, NoOutput)

CheckOutput(name, actual, config, context_lines, build) ==
    /\ CheckWith(name, actual, config, context_lines, build,
                 check(files, name, actual, config, clock, clock),
                 read(files, name).snap)
    /\ UNCHANGED <<clock, writers, hostile>>

\* The stored contents: "a", {"a":1} and the byte 0xFF.
StoredContents ==
    {<<97>>, <<123, 34, 97, 34, 58, 49, 125>>, NotUtf8}

\* The actual contents: "a\n", {"a": 1}, "{" and the byte 0xFF.
ActualContents ==
    {<<97, 10>>, <<123, 34, 97, 34, 58, 32, 49, 125>>, <<123>>, NotUtf8}

\* The configs of check: a forced type or none, update_mode off, and
\* context_lines 3 (the default) or usize::MAX - 1; the build only matters
\* for the latter.
CheckConfigs == {c \in Configs : ~c.update_mode}
CheckContexts ==
    {[context_lines |-> USize(3), build |-> "release"]}
    \cup {[context_lines |-> [k \in 1..8 |-> IF k = 1 THEN 254 ELSE 255], build |-> build] :
             build \in Builds}

NextCheck ==
    \/ \E content \in StoredContents, config \in CheckConfigs :
          Create(NameA, content, config)
    \/ \E actual \in ActualContents, config \in CheckConfigs, c \in CheckContexts :
          CheckOutput(NameA, actual, config, c.context_lines, c.build)

SpecCheck == Init /\ [][NextCheck]_vars

\* ------------------------------------------------------------------------
\* snapshot-comparison: read of a file whose header was not written by the
\* store (as test_security_malformed_snapshot_missing_separator puts one)
\* ------------------------------------------------------------------------
\* "# Snapshot: x\n", "# Size: 7\n", "# Size: -1\n", "# Hash: zz\n",
\* "# Type: json\n", "# Type: xml\n", and a line that is no UTF-8
LineSnapshot == 
    <<35, 32, 83, 110, 97, 112, 115, 104, 111, 116, 58, 32, 120, 10>>
LineSize7 == <<35, 32, 83, 105, 122, 101, 58, 32, 55, 10>>
LineSizeMinus == <<35, 32, 83, 105, 122, 101, 58, 32, 45, 49, 10>>
LineHash == <<35, 32, 72, 97, 115, 104, 58, 32, 122, 122, 10>>
LineTypeJson == 
    <<35, 32, 84, 121, 112, 101, 58, 32, 106, 115, 111, 110, 10>>
LineTypeXml == <<35, 32, 84, 121, 112, 101, 58, 32, 120, 109, 108, 10>>
LineNotUtf8 == <<35, 32, 75, 58, 32, 255, 10>>

\* The files: each header line there or not, the separator there or not,
\* and the content "a", the byte 0xFF or nothing.
HeaderShapes ==
    [snapshot : BOOLEAN, size : {"none", "7", "-1"}, hash : BOOLEAN,
     type : {"none", "json", "xml"}, not_utf8 : BOOLEAN, separator : BOOLEAN,
     content : {<<>>, <<97>>, NotUtf8}]

HeaderFile(shape) ==
    (IF shape.snapshot THEN LineSnapshot ELSE <<>>)
    \o (IF shape.size = "7" THEN LineSize7
        ELSE IF shape.size = "-1" THEN LineSizeMinus ELSE <<>>)
    \o (IF shape.hash THEN LineHash ELSE <<>>)
    \o (IF shape.type = "json" THEN LineTypeJson
        ELSE IF shape.type = "xml" THEN LineTypeXml ELSE <<>>)
    \o (IF shape.not_utf8 THEN LineNotUtf8 ELSE <<>>)
    \o (IF shape.separator THEN Separator \o <<10>> ELSE <<>>)
    \o shape.content

InitHeader ==
    /\ hostile \in HeaderShapes
    /\ files = [n \in Names |-> IF n = NameA THEN File(HeaderFile(hostile)) ELSE NoFile]
    /\ clock = 0
    /\ last = NoCall
    /\ writers = <<>>
    /\ diff = NoDiff

NextHeader ==
    \/ Read(NameA)
    \/ Exists(NameA)

SpecHeader == InitHeader /\ [][NextHeader]_vars

\* ------------------------------------------------------------------------
\* output-diffing-utility: diff_json on objects that repeat a key
\* (parse_object pushes every pair it reads, json.rs 86)
\* ------------------------------------------------------------------------
\* {"a":1,"a":2}
KTwice == <<123, 34, 97, 34, 58, 49, 44, 34, 97, 34, 58, 50, 125>>
\* {"a":1,"a":3}
KTwice3 == <<123, 34, 97, 34, 58, 49, 44, 34, 97, 34, 58, 51, 125>>
\* {"a":5}
KFive == <<123, 34, 97, 34, 58, 53, 125>>
\* {"a":1}
KOne == <<123, 34, 97, 34, 58, 49, 125>>
\* {"a":2,"a":1}
KTwiceSwapped == <<123, 34, 97, 34, 58, 50, 44, 34, 97, 34, 58, 49, 125>>
\* {"b":1,"a":1,"b":2}
KBAB == <<123, 34, 98, 34, 58, 49, 44, 34, 97, 34, 58, 49, 44, 34, 98, 34, 58, 50, 125>>
\* {"a":1,"b":1}
KAB == <<123, 34, 97, 34, 58, 49, 44, 34, 98, 34, 58, 49, 125>>
\* {}
KNone == <<123, 125>>
\* {"a":{"b":1,"b":2},"a":3}
KInner == <<123, 34, 97, 34, 58, 123, 34, 98, 34, 58, 49, 44, 34, 98, 34, 58, 50, 125, 44, 34, 97, 34, 58, 51, 125>>
\* {"a":{"b":1}}
KInnerOne == <<123, 34, 97, 34, 58, 123, 34, 98, 34, 58, 49, 125, 125>>
\* {"b":2}
KB == <<123, 34, 98, 34, 58, 50, 125>>

KeyTexts ==
    {KTwice, KTwice3, KFive, KOne, KTwiceSwapped, KBAB, KAB, KNone, KInner,
     KInnerOne, KB}

InitKeys ==
    /\ files = [n \in Names |-> NoFile]
    /\ clock = 0
    /\ last = NoCall
    /\ writers = <<>>
    /\ hostile = <<>>
    /\ diff \in [op : {"args"}, old : KeyTexts, new : KeyTexts]

NextKeys == DiffJson

SpecKeys == InitKeys /\ [][NextKeys]_vars

\* ------------------------------------------------------------------------
\* file-based-semaphore: try_acquire, acquire and the drop of the guard
\* ------------------------------------------------------------------------
\* The lock file of this section is files[LockPath]; it carries, beside its
\* bytes, the caller whose create_new made it (0 for a file put there from
\* outside), since a write through a handle goes to the file that was opened
\* and not to what the path names by then.  writers holds the callers.
LockPath == NameA
LockFile(bytes, inode) == [exists |-> TRUE, data |-> bytes, inode |-> inode]

\* LockInfo without a tag.
LockInfo(pid, timestamp) == [pid |-> pid, timestamp |-> timestamp]

\* LockInfo::serialize: "pid={}\ntimestamp={}\n"
serialize(info) ==
    <<112, 105, 100, 61>> \o to_string(info.pid) \o <<10>>
    \o <<116, 105, 109, 101, 115, 116, 97, 109, 112, 61>> \o to_string(info.timestamp) \o <<10>>

\* The index of the first '=' of str from i on, 0 if there is none.
RECURSIVE FindEquals(_, _)
FindEquals(str, i) ==
    IF i > Len(str) THEN 0
    ELSE IF str[i] = 61 THEN i
    ELSE FindEquals(str, i + 1)

\* What the line does to (pid, timestamp): the match on the key of
\* line.trim().split_once('='); an empty line and a line without '=' do
\* nothing.
LineParsed(line, at, found) ==
    IF at = 0 THEN found
    ELSE IF SubSeq(line, 1, at - 1) = <<112, 105, 100>>
    THEN [found EXCEPT !.pid = parse(SubSeq(line, at + 1, Len(line)))]
    ELSE IF SubSeq(line, 1, at - 1) = <<116, 105, 109, 101, 115, 116, 97, 109, 112>>
    THEN [found EXCEPT !.timestamp = parse(SubSeq(line, at + 1, Len(line)))]
    ELSE found

\* The loop over content.lines(), from the i-th line on.
RECURSIVE LinesParsed(_, _, _)
LinesParsed(ls, i, found) ==
    IF i > Len(ls) THEN found
    ELSE LinesParsed(ls, i + 1, LineParsed(trim(ls[i]), FindEquals(trim(ls[i]), 1), found))

\* The two ok_or_else: an Option<LockInfo>, None for a ParseError.
InfoOf(found) ==
    IF found.pid = -1 \/ found.timestamp = -1 THEN None ELSE Some(found)

\* LockInfo::parse(content).ok()
LockInfo_parse(content) == InfoOf(LinesParsed(lines(content), 1, LockInfo(-1, -1)))

\* now.saturating_sub(self.timestamp), on u64
now_saturating_sub(now, timestamp) == IF now >= timestamp THEN now - timestamp ELSE 0

\* LockInfo::is_stale(timeout), at the time now
is_stale(info, timeout, now) == now_saturating_sub(now, info.timestamp) > timeout

\* Semaphore::lock_info
lock_info(dir) ==
    IF ~dir[LockPath].exists THEN None ELSE LockInfo_parse(dir[LockPath].data)

\* stale_timeout of test_stale_lock_recovery, in seconds, and the stale file
\* the test writes (pid 99999, timestamp 0; the tag is left out).
StaleTimeout == 1
StalePid == 99999
StaleLock == LockFile(serialize(LockInfo(StalePid, 0)), 0)

\* A caller: where it is in try_acquire_with_info, its SemaphoreConfig's
\* stale_timeout, the LockInfo it writes and what it returned.
Caller(pc, op, stale_timeout, info, holder) ==
    [pc |-> pc, op |-> op, stale_timeout |-> stale_timeout, info |-> info, holder |-> holder]
NoCaller == Caller("start", "none", None, LockInfo(0, 0), None)

InitLock ==
    /\ files \in {[n \in Names |-> NoFile],
                  [n \in Names |-> IF n = LockPath THEN StaleLock ELSE NoFile]}
    /\ clock = StaleTimeout + 1
    /\ last = NoCall
    /\ writers = [w \in Writers |-> NoCaller]
    /\ hostile = <<>>
    /\ diff = NoDiff

\* try_acquire() or acquire(): LockInfo::new() with the caller's pid and the
\* time of the call.
Acquire(w, op, stale_timeout) ==
    /\ writers[w].pc = "start"
    /\ writers' = [writers EXCEPT ![w] =
                      Caller(IF stale_timeout.some THEN "check" ELSE "create",
                             op, stale_timeout, LockInfo(w, clock), None)]
    /\ UNCHANGED <<files, clock, last, hostile, diff>>

\* if let Some(existing_info) = self.lock_info() { if existing_info.is_stale(..)
StaleOrNot(w, existing_info) ==
    /\ writers' = [writers EXCEPT ![w].pc =
                      IF /\ existing_info.some
                         /\ is_stale(existing_info.value, writers[w].stale_timeout.value, clock)
                      THEN "remove" ELSE "create"]
    /\ UNCHANGED <<files, clock, last, hostile, diff>>

CheckStale(w) ==
    /\ writers[w].pc = "check"
    /\ StaleOrNot(w, lock_info(files))

\* let _ = fs::remove_file(&self.path);
RemoveStale(w) ==
    /\ writers[w].pc = "remove"
    /\ files' = [files EXCEPT ![LockPath] = NoFile]
    /\ writers' = [writers EXCEPT ![w].pc = "create"]
    /\ UNCHANGED <<clock, last, hostile, diff>>

\* OpenOptions::new().write(true).create_new(true).open(&self.path)
CreateNew(w) ==
    /\ writers[w].pc = "create"
    /\ IF files[LockPath].exists
       THEN /\ writers' = [writers EXCEPT ![w].pc = "exists"]
            /\ UNCHANGED files
       ELSE /\ files' = [files EXCEPT ![LockPath] = LockFile(<<>>, w)]
            /\ writers' = [writers EXCEPT ![w].pc = "write"]
    /\ UNCHANGED <<clock, last, hostile, diff>>

\* file.write_all(info.serialize()), file.sync_all(), Ok(SemaphoreGuard)
WriteInfo(w) ==
    /\ writers[w].pc = "write"
    /\ files' = IF files[LockPath].exists /\ files[LockPath].inode = w
                THEN [files EXCEPT ![LockPath] = LockFile(serialize(writers[w].info), w)]
                ELSE files
    /\ writers' = [writers EXCEPT ![w].pc = "guard"]
    /\ UNCHANGED <<clock, last, hostile, diff>>

\* The AlreadyExists arm: Err(AlreadyLocked) with what lock_info() reads;
\* acquire sleeps and calls try_acquire_with_info(info.clone()) again
\* (acquire_timeout is None).
AlreadyLocked(w) ==
    /\ writers[w].pc = "exists"
    /\ writers' = [writers EXCEPT
                      ![w].holder = lock_info(files),
                      ![w].pc = IF writers[w].op = "try_acquire" THEN "locked"
                                ELSE IF writers[w].stale_timeout.some THEN "check"
                                ELSE "create"]
    /\ UNCHANGED <<files, clock, last, hostile, diff>>

\* Drop for SemaphoreGuard: release_internal removes the file at the path.
DropGuard(w) ==
    /\ writers[w].pc = "guard"
    /\ files' = [files EXCEPT ![LockPath] = NoFile]
    /\ writers' = [writers EXCEPT ![w].pc = "released"]
    /\ UNCHANGED <<clock, last, hostile, diff>>

StaleTimeouts == {None, Some(StaleTimeout)}

NextLock ==
    \/ \E w \in Writers, op \in {"try_acquire", "acquire"}, t \in StaleTimeouts :
          Acquire(w, op, t)
    \/ \E w \in Writers : CheckStale(w)
    \/ \E w \in Writers : RemoveStale(w)
    \/ \E w \in Writers : CreateNew(w)
    \/ \E w \in Writers : WriteInfo(w)
    \/ \E w \in Writers : AlreadyLocked(w)
    \/ \E w \in Writers : DropGuard(w)

SpecLock == InitLock /\ [][NextLock]_vars

\* ------------------------------------------------------------------------
\* Properties
\* ------------------------------------------------------------------------
\* C1: a valid name is present (exists returns true and read succeeds) after
\* a successful create or update and absent after a delete or a clean that
\* does not keep it; read, check and delete on an absent name return NotFound
\* and leave it absent, and check never creates a snapshot.
C1_PresenceFollowsCalls ==
    [][LET name == last'.name IN
       /\ last'.op \in {"create", "update"} /\ last'.kind = "Ok"
             => /\ exists(files', name).flag
                /\ read(files', name).kind = "Ok"
       /\ last'.op = "delete" /\ last'.kind = "Ok" => ~exists(files', name).flag
       /\ last'.op = "clean" /\ ~last'.dry_run
             => \A n \in ValidNames \ last'.keep : ~exists(files', n).flag
       /\ last'.op \in {"read", "check", "delete"} /\ ~files[name].exists
             => last'.kind = "NotFound" /\ ~files'[name].exists
       /\ last'.op = "check" => (files'[name].exists <=> files[name].exists)
      ]_vars

\* C2: every Snapshot that create, update or read returns has content_hash
\* equal to the FNV-1a digest of its content and size equal to the content's
\* length; after a write (create, update, or a check that returned Updated)
\* the stored header holds the digest of the content written and, as
\* Updated, the time of the write.
C2_HashAndSize ==
    /\ last.op \in {"create", "update", "read"} /\ last.kind = "Ok"
          => /\ last.snap.content_hash = compute_hash(last.snap.content)
             /\ last.snap.size = BLen(last.snap.content)
    /\ \/ last.op \in {"create", "update"} /\ last.kind = "Ok"
       \/ last.op = "check" /\ last.kind = "Updated"
          => LET header == StoredHeader(files[last.name].data) IN
             /\ Get(header, <<72, 97, 115, 104>>)
                   = [some |-> TRUE, value |-> compute_hash(last.content)]
             /\ Get(header, <<85, 112, 100, 97, 116, 101, 100>>)
                   = [some |-> TRUE, value |-> to_string(last.at)]

\* An update that replaced an older snapshot's content a second or more
\* after the snapshot was created.
C2_Witness ==
    /\ last.op = "update" /\ last.kind = "Ok"
    /\ last.content = SepText
    /\ last.snap.created_at < last.at
    /\ files[NameA].data = Envelope(last.snap)

\* C3: while a snapshot stays present, a create, update or update-mode check
\* on its name leaves the created_at that read returns as it was, and
\* updated_at is never smaller than created_at.
C3_CreatedAtImmutable ==
    [][read(files, NameA).kind = "Ok" /\ read(files', NameA).kind = "Ok"
          => /\ read(files', NameA).snap.created_at = read(files, NameA).snap.created_at
             /\ read(files', NameA).snap.updated_at >= read(files', NameA).snap.created_at
      ]_vars

\* C4: check with update_mode on a snapshot that read returns, whose stored
\* hash differs from the hash of actual, returns Updated with the snapshot as
\* it was, stores actual, and a check that follows with the same actual
\* returns Match, whatever the file type and the bytes of actual (stated for
\* an actual of at most MAX_CONTENT_SIZE bytes, which read can return).
C4_UpdateModeReplaces ==
    [][LET name == last'.name
           before == read(files, name)
       IN last'.op = "check" /\ last'.config.update_mode /\ before.kind = "Ok"
              /\ before.snap.content_hash # compute_hash(last'.content)
              /\ BLen(last'.content) <= MAX_CONTENT_SIZE
          => /\ last'.kind = "Updated"
             /\ last'.snap = before.snap
             /\ read(files', name).kind = "Ok"
             /\ read(files', name).snap.content = last'.content
             /\ check(files', name, last'.content, last'.config, clock', clock').res.kind
                   = "Match"
      ]_vars

\* C5: check returns Match whenever the hash of actual equals the stored
\* content_hash, and a check that returns Match, Mismatch or an error leaves
\* every file of the store as it was.
C5_MatchOnEqualHash ==
    [][last'.op = "check"
          => /\ files[last'.name].exists
                   /\ Get(StoredHeader(files[last'.name].data), <<72, 97, 115, 104>>)
                         = [some |-> TRUE, value |-> compute_hash(last'.content)]
                => last'.kind = "Match"
             /\ last'.kind # "Updated" => files' = files
      ]_vars

\* C6: a read issued directly after a successful create or update returns a
\* Snapshot equal, content and metadata, to the one the write returned.
C6_RoundTrip ==
    last.op \in {"create", "update"} /\ last.kind = "Ok"
        => /\ read(files, last.name).kind = "Ok"
           /\ read(files, last.name).snap = last.snap

\* C7: create, read, check, update, delete and exists return InvalidName
\* exactly when the name is empty, contains "..", '/', '\' or NUL, or a
\* character other than ASCII letters, digits, '-', '_' and '.'; and then
\* they leave the store as it was.
C7_InvalidNameExactly ==
    [][last'.op \in {"create", "read", "check", "update", "delete", "exists"}
          => LET name == last'.name
                 bad == \/ name = <<>>
                        \/ \E i \in 1..(Len(name) - 1) : name[i] = 46 /\ name[i + 1] = 46
                        \/ \E i \in 1..Len(name) : name[i] \in {47, 92, 0}
                        \/ \E i \in 1..Len(name) :
                              name[i] \notin (48..57) \cup (65..90) \cup (97..122)
                                                 \cup {45, 95, 46}
             IN /\ last'.kind = "InvalidName" <=> bad
                /\ bad => files' = files
      ]_vars

\* create on the name "..", made of allowed characters only, was refused.
C7_Witness ==
    /\ last.op = "create"
    /\ last.name = <<46, 46>>
    /\ last.kind = "InvalidName"
    /\ files[NameA].exists

\* C8: once concurrent update calls on a name have all completed, read
\* succeeds and returns the content and metadata one of the calls wrote.
C8_LastWriterWins ==
    RaceDone
        => /\ read(files, NameA).kind = "Ok"
           /\ \E w \in Writers : read(files, NameA).snap = writers[w].snap

\* C9: read accepts a file with at most MAX_HEADER_LINES header lines of at
\* most MAX_HEADER_LINE_LENGTH bytes, a separator and at most
\* MAX_CONTENT_SIZE bytes of content, and returns CorruptedSnapshot when a
\* limit is exceeded; 150 header lines are refused for their number.
C9_ReaderLimits ==
    last.op = "read"
        => LET short == hostile.lines = 0 \/ hostile.width <= MAX_HEADER_LINE_LENGTH
               within == /\ hostile.lines <= MAX_HEADER_LINES
                         /\ short
                         /\ hostile.size <= MAX_CONTENT_SIZE
           IN /\ within /\ hostile.separator
                    => last.kind = "Ok" /\ BLen(last.snap.content) = hostile.size
              /\ ~within => last.kind = "CorruptedSnapshot"
              /\ hostile.lines = 150 /\ short => last.why = "Too many header lines"

\* C10: clean returns exactly the names of the snapshots in the store that
\* are not in keep_names; without dry_run exactly those are then absent and
\* the others unchanged; with dry_run the store is unchanged.
C10_CleanDeletesUnkept ==
    [][last'.op = "clean"
          => LET unkept == {n \in Names : files[n].exists} \ last'.keep IN
             /\ last'.kind = "Ok"
             /\ {last'.deleted[i] : i \in 1..Len(last'.deleted)} = unkept
             /\ Len(last'.deleted) = Cardinality(unkept)
             /\ last'.dry_run => files' = files
             /\ ~last'.dry_run
                   => files' = [n \in Names |-> IF n \in unkept THEN NoFile ELSE files[n]]
      ]_vars

\* C11 as stated: in every result of diff_text, for every context_lines, the
\* old line numbers of the Unchanged and Removed entries are strictly
\* increasing and are exactly 1..old_line_count, and the new line numbers of
\* the Unchanged and Added entries are strictly increasing and are exactly
\* 1..new_line_count.
C11_LineNumbersSpanAll ==
    diff.op = "diff_text" /\ ~diff.result.panic
        => LET c == diff.result.changes
               olds == {i \in 1..Len(c) : c[i].kind \in {"Unchanged", "Removed"}}
               news == {i \in 1..Len(c) : c[i].kind \in {"Unchanged", "Added"}}
           IN /\ \A i, j \in olds : i < j => c[i].old_line_num < c[j].old_line_num
              /\ {c[i].old_line_num : i \in olds} = 1..diff.result.old_line_count
              /\ \A i, j \in news : i < j => c[i].new_line_num < c[j].new_line_num
              /\ {c[i].new_line_num : i \in news} = 1..diff.result.new_line_count

\* C11: in every result of diff_text the old line numbers of the Unchanged
\* and Removed entries are strictly increasing within 1..old_line_count and
\* the new line numbers of the Unchanged and Added entries are strictly
\* increasing within 1..new_line_count; with context_lines = usize::MAX they
\* are exactly 1..old_line_count and 1..new_line_count.
C11_LineNumbersIncrease ==
    diff.op = "diff_text" /\ ~diff.result.panic
        => LET c == diff.result.changes
               olds == {i \in 1..Len(c) : c[i].kind \in {"Unchanged", "Removed"}}
               news == {i \in 1..Len(c) : c[i].kind \in {"Unchanged", "Added"}}
               all == diff.context_lines = USIZE_MAX
           IN /\ \A i, j \in olds : i < j => c[i].old_line_num < c[j].old_line_num
              /\ {c[i].old_line_num : i \in olds} \subseteq 1..diff.result.old_line_count
              /\ all => {c[i].old_line_num : i \in olds} = 1..diff.result.old_line_count
              /\ \A i, j \in news : i < j => c[i].new_line_num < c[j].new_line_num
              /\ {c[i].new_line_num : i \in news} \subseteq 1..diff.result.new_line_count
              /\ all => {c[i].new_line_num : i \in news} = 1..diff.result.new_line_count

\* diff_text with context_lines = 0 returned two removed lines and left an
\* unchanged line out.
C11_Witness ==
    /\ diff.op = "diff_text" /\ ~diff.result.panic
    /\ diff.context_lines = USize(0)
    /\ deletions(diff.result) = 2
    /\ Len(diff.result.changes) < diff.result.old_line_count

\* C12: diff_text(x, x, config) returns a result with no Added and no
\* Removed entry, so that has_changes() is false, for every context_lines.
C12_Idempotence ==
    diff.op = "diff_text" /\ diff.old = diff.new
        => /\ ~diff.result.panic
           /\ additions(diff.result) = 0
           /\ deletions(diff.result) = 0
           /\ ~has_changes(diff.result)

\* diff_text of a text of three lines with itself, with all context.
C12_Witness ==
    /\ diff.op = "diff_text" /\ diff.old = diff.new
    /\ diff.context_lines = USIZE_MAX
    /\ Len(diff.result.changes) = 3

\* C13: when diff_text(a, b) returns, diff_text(b, a) with the same config
\* returns too, with as many Removed entries as the former has Added and as
\* many Added entries as the former has Removed.
C13_Symmetry ==
    diff.op = "diff_text" /\ ~diff.result.panic
        => LET back == diff_text(diff.new, diff.old, diff.context_lines, diff.build) IN
           /\ ~back.panic
           /\ additions(diff.result) = deletions(back)
           /\ deletions(diff.result) = additions(back)

\* C14: with context_lines = usize::MAX, the number of Unchanged entries is
\* the length L of a longest common subsequence of the two line sequences,
\* there are m - L Removed and n - L Added entries, and compute_lcs returns L
\* strictly increasing indices into new whose lines are a common subsequence.
C14_MinimalEditScript ==
    diff.op = "diff_text" /\ diff.context_lines = USIZE_MAX
        => LET a == lines(diff.old)
               b == lines(diff.new)
               \* the strictly increasing maps of 1..k into 1..n
               Picks(k, n) == {p \in [1..k -> 1..n] : \A x, y \in 1..k : x < y => p[x] < p[y]}
               Common(k) == \E p \in Picks(k, Len(a)), q \in Picks(k, Len(b)) :
                               \A x \in 1..k : a[p[x]] = b[q[x]]
               L == CHOOSE k \in 0..Len(a) : Common(k) /\ ~Common(k + 1)
               lcs == compute_lcs(a, b)
           IN /\ ~diff.result.panic
              /\ Count(diff.result.changes, "Unchanged") = L
              /\ deletions(diff.result) = Len(a) - L
              /\ additions(diff.result) = Len(b) - L
              /\ Len(lcs) = L
              /\ \A x \in 1..Len(lcs) : lcs[x] >= 0 /\ lcs[x] < Len(b)
              /\ \A x, y \in 1..Len(lcs) : x < y => lcs[x] < lcs[y]
              /\ \E p \in Picks(L, Len(a)) : \A x \in 1..L : a[p[x]] = b[lcs[x] + 1]

\* diff_text with all context returned one Unchanged, one Removed and one
\* Added entry at least.
C14_Witness ==
    /\ diff.op = "diff_text" /\ diff.context_lines = USIZE_MAX
    /\ Count(diff.result.changes, "Unchanged") >= 1
    /\ deletions(diff.result) >= 1
    /\ additions(diff.result) >= 1

\* C15: diff_text returns a TextDiffResult for every pair of texts and every
\* context_lines, without a panic and without an overflow of
\* change_idx + context_lines + 1.
C15_NonFailing ==
    diff.op = "diff_text"
        => /\ ~diff.result.panic
           /\ diff.context_lines # USIZE_MAX
                 => \A c \in change_indices(
                                 FirstPass(lines(diff.old), lines(diff.new),
                                           compute_lcs(lines(diff.old), lines(diff.new)),
                                           0, 0, 0)) :
                       ~EndOverflows(c, diff.context_lines)

\* C16: diff_binary returns a ByteDifference at offset i exactly for the i
\* below the longer length where old and new disagree (a byte past the end
\* of an input is absent), with those two optional bytes, offsets strictly
\* increasing; old_size and new_size are the input lengths and additions +
\* deletions + modifications is the number of differences.
C16_BinaryDifferences ==
    diff.op = "diff_binary"
        => LET d == diff.result.differences
               old == diff.old
               new == diff.new
               longer == IF Len(old) >= Len(new) THEN Len(old) ELSE Len(new)
               disagree == {i \in 0..(longer - 1) :
                               \/ i >= Len(old) \/ i >= Len(new)
                               \/ old[i + 1] # new[i + 1]}
           IN /\ {d[k].offset : k \in 1..Len(d)} = disagree
              /\ \A k \in 1..(Len(d) - 1) : d[k].offset < d[k + 1].offset
              /\ \A k \in 1..Len(d) :
                    /\ d[k].old_byte.some = (d[k].offset < Len(old))
                    /\ d[k].old_byte.some => d[k].old_byte.value = old[d[k].offset + 1]
                    /\ d[k].new_byte.some = (d[k].offset < Len(new))
                    /\ d[k].new_byte.some => d[k].new_byte.value = new[d[k].offset + 1]
              /\ diff.result.old_size = Len(old)
              /\ diff.result.new_size = Len(new)
              /\ binary_additions(diff.result) + binary_deletions(diff.result)
                    + binary_modifications(diff.result) = Len(d)

\* diff_binary returned a modification followed by an addition after an
\* offset where the inputs agree.
C16_Witness ==
    /\ diff.op = "diff_binary"
    /\ diff.old = <<97, 0>>
    /\ diff.new = <<97, 255, 0>>
    /\ binary_modifications(diff.result) = 1
    /\ binary_additions(diff.result) = 1

\* The places of two JSON documents that a walk from the roots compares: the
\* roots, and under a place that holds two arrays or two objects, every index
\* below the longer length and every key of either object.  A path is
\* parent.key (the bare key under an empty parent path) or parent[i].
KeyPath(parent, key) == IF parent = <<>> THEN key ELSE parent \o <<46>> \o key
IndexPath(parent, i) == parent \o <<91>> \o to_string(i) \o <<93>>
Place(path, side, old, new) == [path |-> path, side |-> side, old |-> old, new |-> new]
ValueOfKey(pairs, key) ==
    (CHOOSE i \in 1..Len(pairs) : pairs[i].key = key /\ \A j \in 1..(i - 1) : pairs[j].key # key)
HasKey(pairs, key) == \E i \in 1..Len(pairs) : pairs[i].key = key
RECURSIVE Places(_, _, _)
Places(path, old, new) ==
    {Place(path, "both", old, new)} \cup
    IF old.kind = "Array" /\ new.kind = "Array"
    THEN UNION {IF i <= Len(old.items) /\ i <= Len(new.items)
                THEN Places(IndexPath(path, i - 1), old.items[i], new.items[i])
                ELSE IF i <= Len(old.items)
                THEN {Place(IndexPath(path, i - 1), "old", old.items[i], Null)}
                ELSE {Place(IndexPath(path, i - 1), "new", Null, new.items[i])} :
                i \in 1..Max(Len(old.items), Len(new.items))}
    ELSE IF old.kind = "Object" /\ new.kind = "Object"
    THEN UNION {IF HasKey(old.pairs, key) /\ HasKey(new.pairs, key)
                THEN Places(KeyPath(path, key),
                            old.pairs[ValueOfKey(old.pairs, key)].value,
                            new.pairs[ValueOfKey(new.pairs, key)].value)
                ELSE IF HasKey(old.pairs, key)
                THEN {Place(KeyPath(path, key), "old",
                            old.pairs[ValueOfKey(old.pairs, key)].value, Null)}
                ELSE {Place(KeyPath(path, key), "new", Null,
                            new.pairs[ValueOfKey(new.pairs, key)].value)} :
                key \in {old.pairs[i].key : i \in 1..Len(old.pairs)}
                        \cup {new.pairs[i].key : i \in 1..Len(new.pairs)}}
    ELSE {}

\* s is the path of something nested below the place of path p.
Below(p, s) ==
    /\ Len(s) > Len(p)
    /\ SubSeq(s, 1, Len(p)) = p
    /\ p = <<>> \/ s[Len(p) + 1] \in {46, 91}

\* The changes of a result at the path, and at or below it.
ChangesAt(changes, path) == {i \in 1..Len(changes) : changes[i].path = path}
ChangesUnder(changes, path) ==
    {i \in 1..Len(changes) : changes[i].path = path \/ Below(path, changes[i].path)}

Scalars == {"Null", "Bool", "Number", "String"}

\* u.n, i[1] and u[0].g
PathUN == <<117, 46, 110>>
PathI1 == <<105, 91, 49, 93>>
PathU0G == <<117, 91, 48, 93, 46, 103>>

TypeChangedOnce ==
    LET changes == diff.result.changes IN
    \A q \in Places(<<>>, parse_json(diff.old).value, parse_json(diff.new).value) :
        (q.side = "both" /\ q.old.kind # q.new.kind) =>
            \E i \in 1..Len(changes) :
                /\ ChangesUnder(changes, q.path) = {i}
                /\ changes[i] = TypeChanged(q.path, q.old, q.new)

\* C18 (as stated): values of different kinds at a path give exactly one
\* TypeChanged at that path, no Modified and no change below it, and the
\* summary counts of a result count the TypeChanged entries apart from the
\* Modified entries: modifications() is the number of Modified entries.
C18_TypeChangedCountedApart ==
    (diff.op = "diff_json" /\ diff.result.ok) =>
        /\ TypeChangedOnce
        /\ modifications(diff.result) = CountJson(diff.result.changes, {"Modified"})

\* C18 (amended): values of different kinds at a path give exactly one
\* TypeChanged at that path, no Modified and no change below it, and
\* modifications(), the count the summaries print, counts the TypeChanged
\* entries together with the Modified entries.
C18_TypeChangedCountedTogether ==
    (diff.op = "diff_json" /\ diff.result.ok) =>
        /\ TypeChangedOnce
        /\ modifications(diff.result)
              = CountJson(diff.result.changes, {"Modified"})
                + CountJson(diff.result.changes, {"TypeChanged"})
        /\ json_additions(diff.result) + json_deletions(diff.result)
              + modifications(diff.result) = Len(diff.result.changes)

\* C18 witness: an array and an object under the key a, which has members of
\* its own: one TypeChanged at a, counted as one modification.
C18_Witness ==
    /\ diff.op = "diff_json"
    /\ diff.old = JArrIn /\ diff.new = JObjIn
    /\ diff.result.ok
    /\ Len(diff.result.changes) = 1
    /\ diff.result.changes[1].kind = "TypeChanged"
    /\ diff.result.changes[1].path = <<97>>
    /\ modifications(diff.result) = 1

\* C19: diff_json is deterministic: the result of a call is the one result
\* diff_json has for its two texts, the same changes in the same order, also
\* when the objects differ in several keys.
C19_Deterministic ==
    diff.op = "diff_json" => \A result \in diff_json(diff.old, diff.new) : result = diff.result

\* The error of each text that is no JSON document: the first one the parser
\* comes to, and for a literal the word it read.
ParseError(message, arg) == [message |-> message, arg |-> arg]
ErrorOf(text) ==
    IF text = JTrailingComma THEN ParseError("Expected '\"'", <<>>)
    ELSE IF text = JOpen THEN ParseError("Unexpected character", <<>>)
    ELSE IF text = JTru THEN ParseError("Invalid boolean: ", <<116, 114, 117>>)
    ELSE IF text = JEmpty THEN ParseError("Unexpected character", <<>>)
    ELSE IF text = JNoColon THEN ParseError("Expected ':'", <<>>)
    ELSE IF text = JUnterminated THEN ParseError("Unterminated string", <<>>)
    ELSE IF text = JMinus THEN ParseError("Invalid number: ", <<45>>)
    ELSE IF text = JBadEscape THEN ParseError("Invalid escape sequence", <<>>)
    ELSE ParseError("Invalid boolean: ", <<116, 114, 117>>)

\* C20: diff_json returns a parse error and no changes when either text fails
\* to parse, the error of the old text when both fail, and a JsonDiffResult
\* only when both parse; the error is the first one in the text.
C20_ParseErrors ==
    diff.op = "diff_json" =>
        /\ diff.old \in BadJsonTexts =>
              /\ ~diff.result.ok /\ diff.result.changes = <<>>
              /\ ParseError(diff.result.message, diff.result.arg) = ErrorOf(diff.old)
        /\ (diff.old \in JsonTexts /\ diff.new \in BadJsonTexts) =>
              /\ ~diff.result.ok /\ diff.result.changes = <<>>
              /\ ParseError(diff.result.message, diff.result.arg) = ErrorOf(diff.new)
        /\ (diff.old \in JsonTexts /\ diff.new \in JsonTexts) => diff.result.ok
        /\ diff.result.ok <=> (parse_json(diff.old).ok /\ parse_json(diff.new).ok)

\* C20 witness: both texts fail to parse, each with an error of its own, and
\* diff_json has returned the error of the old one.
C20_Witness ==
    /\ diff.op = "diff_json"
    /\ diff.old = JTwoErrors /\ diff.new = JMinus
    /\ ~diff.result.ok
    /\ diff.result.message = "Invalid boolean: "

\* Two ASCII strings that are equal but for the case of their letters.
SameButCase(s, t) ==
    /\ Len(s) = Len(t)
    /\ \A i \in 1..Len(s) :
          \/ s[i] = t[i]
          \/ s[i] \in 65..90 /\ t[i] = s[i] + 32
          \/ t[i] \in 65..90 /\ s[i] = t[i] + 32

\* The contents that are valid UTF-8, not empty, and have 95 of 100
\* characters at least that are no control character or are a line feed,
\* carriage return or tab: "a", "{}", the accented "e", a line feed, and
\* those of 20 characters with one control character.
TextLike ==
    {<<97>>, <<123, 125>>, <<195, 169>>, <<10>>, <<Fill(19), 0>>, <<Fill(19), 194, 133>>,
     <<Fill(18), 195, 169, 0>>}

C22_FormattingNeverFails ==
    diff.op = "format_side_by_side" =>
        /\ ~diff.formatted.panic
        /\ diff.result.kind = "Binary" =>
              \E k \in 0..Len(diff.formatted.output) :
                  SubSeq(diff.formatted.output, k + 1, Len(diff.formatted.output))
                      = NotSupportedBinary
        /\ diff.result.kind = "Json" =>
              \E k \in 0..Len(diff.formatted.output) :
                  SubSeq(diff.formatted.output, k + 1, Len(diff.formatted.output))
                      = NotSupportedJson

\* C23: in every result of diff_text each Unchanged carries the line that is
\* line old_line_num of old and line new_line_num of new, each Removed line
\* old_line_num of old and each Added line new_line_num of new.
C23_LinesMatch ==
    (diff.op = "diff_text" /\ ~diff.result.panic) =>
        LET old_lines == lines(diff.old)
            new_lines == lines(diff.new)
            changes == diff.result.changes
        IN  \A i \in 1..Len(changes) :
                /\ changes[i].kind \in {"Unchanged", "Removed"} =>
                      /\ changes[i].old_line_num \in 1..Len(old_lines)
                      /\ changes[i].line = old_lines[changes[i].old_line_num]
                /\ changes[i].kind \in {"Unchanged", "Added"} =>
                      /\ changes[i].new_line_num \in 1..Len(new_lines)
                      /\ changes[i].line = new_lines[changes[i].new_line_num]

\* C24: whenever check returns Mismatch, the diff attached to it reports a
\* change at least, for every stored or forced file type, every
\* context_lines and every stored and actual contents whose hashes differ.
C24_MismatchHasChanges ==
    (last.op = "check" /\ last.kind = "Mismatch") => output_has_changes(diff.output)

\* C26: on a hash mismatch with update_mode off, check takes the differ of
\* config.file_type if set and of the stored type otherwise: Binary gives a
\* binary diff of the bytes, Text a text diff, Json a structural diff, or a
\* text diff when either side is no JSON; for Text and Json, content that is
\* not valid UTF-8 on either side gives InvalidUtf8 and no result.
C26_DifferByType ==
    (/\ last.op = "check" /\ ~last.config.update_mode
     /\ read(files, last.name).kind = "Ok"
     /\ read(files, last.name).snap.content_hash # compute_hash(last.content)) =>
        LET snapshot == read(files, last.name).snap
            file_type == IF last.config.file_type # "none" THEN last.config.file_type
                         ELSE snapshot.file_type
            expected == from_utf8(snapshot.content)
            actual == from_utf8(last.content)
        IN  /\ file_type = "binary" =>
                  /\ last.kind = "Mismatch"
                  /\ diff.output = DiffOutput("Binary", diff_binary(snapshot.content, last.content))
            /\ (file_type # "binary" /\ ~(expected.ok /\ actual.ok)) =>
                  last.kind = "InvalidUtf8"
            /\ (file_type = "text" /\ expected.ok /\ actual.ok) =>
                  /\ last.kind = "Mismatch"
                  /\ diff.output.kind = "Text"
            /\ (file_type = "json" /\ expected.ok /\ actual.ok) =>
                  /\ last.kind = "Mismatch"
                  /\ diff.output.kind
                        = IF parse_json(expected.chars).ok /\ parse_json(actual.chars).ok
                          THEN "Json" ELSE "Text"

\* C25: with a finite context_lines c, diff_text returns the full list of
\* changes restricted, in its order, to the Added and Removed entries and the
\* Unchanged entries at most c positions before or after one of them, and
\* nothing when no entry is Added or Removed; with usize::MAX it returns the
\* full list.
C25_ContextWindow ==
    diff.op = "diff_text" =>
        LET full == diff_text(diff.old, diff.new, USIZE_MAX, diff.build).changes
            c == diff.context_lines
            changed == {i \in 1..Len(full) : full[i].kind # "Unchanged"}
            Near(i, j) == IF i >= j THEN ~IsSmall(c) \/ i - j <= Small(c)
                          ELSE ~IsSmall(c) \/ j - i <= Small(c)
            keep == {i \in 1..Len(full) : \E j \in changed : Near(i, j)}
            restricted == [k \in 1..Cardinality(keep) |->
                              full[CHOOSE i \in keep : Cardinality({j \in keep : j < i}) = k - 1]]
        IN  /\ ~diff.result.panic
            /\ diff.result.changes = IF c = USIZE_MAX THEN full ELSE restricted

\* C27: read of a file that holds the separator and keeps the limits
\* succeeds, also when header fields are missing or cannot be parsed, with
\* the lookup key for the name, the hash of the content for content_hash,
\* the length of the content for size and the classifier's result for
\* file_type in place of each such field; and what read reports otherwise is
\* CorruptedSnapshot, for a missing separator.
C27_HeaderFallbacks ==
    last.op = "read" =>
        /\ hostile.separator =>
              /\ last.kind = "Ok"
              /\ last.snap.content = hostile.content
              /\ last.snap.name = IF hostile.snapshot THEN <<120>> ELSE NameA
              /\ last.snap.content_hash
                    = IF hostile.hash THEN <<122, 122>> ELSE compute_hash(hostile.content)
              /\ last.snap.size = IF hostile.size = "7" THEN 7 ELSE BLen(hostile.content)
              /\ last.snap.file_type
                    = IF hostile.type = "json" THEN "json"
                      ELSE detect_file_type(hostile.content)
        /\ ~hostile.separator => last.kind = "CorruptedSnapshot"

\* The changes at or below the path, in their order.
ChangesOf(changes, path) ==
    LET Under(c) == c.path = path \/ Below(path, c.path)
    IN  SelectSeq(changes, Under)

\* C28: diff_json on two objects takes each key of the union of their keys
\* once: the changes at or below the key stand together and are those of the
\* first pair with that key on each side (the comparison of the two values,
\* one Removed or one Added), whatever later pairs repeat the key, and there
\* is no other change.
C28_FirstEntryPerKey ==
    (diff.op = "diff_json" /\ diff.result.ok) =>
        LET old == parse_json(diff.old).value
            new == parse_json(diff.new).value
            changes == diff.result.changes
            keys == {old.pairs[i].key : i \in 1..Len(old.pairs)}
                        \cup {new.pairs[i].key : i \in 1..Len(new.pairs)}
        IN  (old.kind = "Object" /\ new.kind = "Object") =>
                /\ \A i \in 1..Len(changes) : \E key \in keys : i \in ChangesUnder(changes, key)
                /\ \A key \in keys :
                      LET at == ChangesUnder(changes, key)
                          sub == ChangesOf(changes, key)
                      IN  /\ \A i, j \in at : \A k \in i..j : k \in at
                          /\ Cardinality({i \in at : changes[i].path = key
                                            /\ changes[i].kind \in {"Added", "Removed"}}) <= 1
                          /\ IF HasKey(old.pairs, key) /\ HasKey(new.pairs, key)
                             THEN sub \in compare_json_values(key,
                                      old.pairs[ValueOfKey(old.pairs, key)].value,
                                      new.pairs[ValueOfKey(new.pairs, key)].value)
                             ELSE IF HasKey(old.pairs, key)
                             THEN sub = <<JsonRemoved(key, old.pairs[ValueOfKey(old.pairs, key)].value)>>
                             ELSE sub = <<JsonAdded(key, new.pairs[ValueOfKey(new.pairs, key)].value)>>

\* {"a":1,"a":2} against {"a":1,"a":3} has no change, against {"a":5} the one
\* Modified of 1 to 5, and {"b":1,"a":1,"b":2} against {"a":1} one Removed of
\* b with the value 1.
C28_Witness ==
    /\ diff.op = "diff_json"
    /\ \/ diff.old = KTwice /\ diff.new = KTwice3 /\ diff.result.changes = <<>>
       \/ /\ diff.old = KTwice /\ diff.new = KFive
          /\ diff.result.changes = <<Modified(<<97>>, Number(1), Number(5))>>
       \/ /\ diff.old = KBAB /\ diff.new = KOne
          /\ diff.result.changes = <<JsonRemoved(<<98>>, Number(1))>>

\* C29: parse_json succeeds only when one value takes the whole input apart
\* from whitespace at its two ends: where the parse of a text of diff_json
\* succeeds, the value ends at the end of the trimmed text, so that '1 x'
\* is a parse error.
C29_WholeInputConsumed ==
    diff.op = "diff_json" =>
        \A text \in {diff.old, diff.new} :
            parse_json(text).ok => parse_json(text).pos = Len(trim(text)) + 1

\* The callers that hold a SemaphoreGuard that was not dropped.
Guards == {w \in Writers : writers[w].pc = "guard"}

\* C30: among the callers of try_acquire and acquire on one lock path at
\* most one holds a live SemaphoreGuard at any time, also where stale-lock
\* recovery is enabled and several callers take over a stale lock file.
C30_OneGuard == Cardinality(Guards) <= 1

====
